---- MODULE Spec2Model ----
(***************************************************************************)
(* Translation-memory service (Express + Elasticsearch + OpenAI fallback). *)
(* The model covers the two request handlers of index.ts, POST             *)
(* /add-translation and POST /translate, the helpers they call, and the    *)
(* three oracles they talk to: the search engine (indices.exists,          *)
(* indices.create, search, bulk), the sentence tokenizer and the fallback  *)
(* translator.                                                             *)
(*                                                                         *)
(* A JavaScript string is a sequence of one-character strings, so that     *)
(* trimming, tag stripping, lower-casing, sentence splitting and bigram    *)
(* scoring are computed, not assumed.  The token "EMOJI" stands for one    *)
(* pictographic code point.  undefined is the one-token sequence           *)
(* <<"undefined">>, which no text of the model equals.                     *)
(***************************************************************************)
EXTENDS Integers, Sequences, FiniteSets, TLC

\* ------------------------------------------------------------------ bounds

\* Requests received over one behaviour.
MaxReqs == 3

\* Longest text and language tag given to the normalizers.
MaxLen == 5

\* Spreadsheets in the folder that the ingestion job is run on.
MaxFiles == 2

\* ------------------------------------------------------- JavaScript values

Undefined == <<"undefined">>

\* `null`, the identifier an inserted result carries before (or without) its id.
Null == 0

Whitespace == {" "}

Pictographic == {"EMOJI"}

Upper2Lower == ("A" :> "a") @@ ("B" :> "b") @@ ("E" :> "e") @@ ("F" :> "f")
               @@ ("N" :> "n") @@ ("R" :> "r")

\* String.prototype.toLowerCase
toLowerCase(s) ==
  [i \in 1..Len(s) |-> IF s[i] \in DOMAIN Upper2Lower THEN Upper2Lower[s[i]] ELSE s[i]]

RECURSIVE trimStart(_)
trimStart(s) ==
  IF s = <<>> THEN <<>>
  ELSE IF Head(s) \in Whitespace THEN trimStart(Tail(s)) ELSE s

RECURSIVE trimEnd(_)
trimEnd(s) ==
  IF s = <<>> THEN <<>>
  ELSE IF s[Len(s)] \in Whitespace THEN trimEnd(SubSeq(s, 1, Len(s) - 1)) ELSE s

\* String.prototype.trim
trim(s) == trimEnd(trimStart(s))

\* .replace(/<[^>]*>/g, ""): leftmost matches, each from a "<" to the first ">"
\* after it; a "<" with no ">" after it stays.
RECURSIVE StripTags(_)
StripTags(s) ==
  IF s = <<>> THEN <<>>
  ELSE IF Head(s) = "<" /\ \E k \in 2..Len(s) : s[k] = ">"
       THEN LET k == CHOOSE k \in 2..Len(s) :
                       s[k] = ">" /\ \A j \in 2..(k - 1) : s[j] # ">"
            IN  StripTags(SubSeq(s, k + 1, Len(s)))
       ELSE <<Head(s)>> \o StripTags(Tail(s))

\* .replace(/[\p{Emoji_Presentation}\p{Extended_Pictographic}]/gu, "")
StripPictographic(s) == SelectSeq(s, LAMBDA c : c \notin Pictographic)

\* A normalize_text that trims first and strips afterwards: the whitespace
\* that stood next to a tag or a pictographic character stays at the edge of
\* the result.  The order that C19 depends on.
normalize_text_trim_first(str) == StripPictographic(StripTags(trim(str)))

normalize_text(str) == trim(StripPictographic(StripTags(str)))

\* .replace(/\s+/g, "-")
RECURSIVE HyphenateWhitespace(_)
HyphenateWhitespace(s) ==
  IF s = <<>> THEN <<>>
  ELSE IF Head(s) \in Whitespace
       THEN <<"-">> \o HyphenateWhitespace(trimStart(Tail(s)))
       ELSE <<Head(s)>> \o HyphenateWhitespace(Tail(s))

\* source_lang?.toLowerCase().trim().replace(/\s+/g, "-")
normalize_lang(lang) ==
  IF lang = Undefined THEN Undefined
  ELSE HyphenateWhitespace(trim(toLowerCase(lang)))

\* JavaScript truthiness of a string-or-undefined value: !x is true of both
\* undefined and "".
Falsy(x) == x = Undefined \/ x = <<>>

non_segment_languages ==
  << <<"a","r","a","b","i","c">>,
     <<"j","a","p","a","n","e","s","e">>,
     <<"k","o","r","e","a","n">>,
     <<"s","i","m","p","l","i","f","i","e","d","-","c","h","i","n","e","s","e">>,
     <<"t","r","a","d","i","t","i","o","n","a","l","-","c","h","i","n","e","s","e">> >>

\* Array.prototype.includes
includes(arr, x) == \E i \in 1..Len(arr) : arr[i] = x

\* ----------------------------------------------------------- segmentation

SentenceEnd == {".", "?", "!"}

\* tokenizer.sentences (the sbd library): a sentence ends at a terminator that
\* is followed by whitespace or by the end of the text; text that is only
\* whitespace holds no sentence.
RECURSIVE tokenizer_sentences(_)
tokenizer_sentences(text) ==
  LET Ends == {k \in 1..Len(text) :
                 /\ text[k] \in SentenceEnd
                 /\ (k = Len(text) \/ text[k + 1] \in Whitespace)}
  IN  IF trim(text) = <<>> THEN <<>>
      ELSE IF Ends = {} THEN <<text>>
      ELSE LET k == CHOOSE k \in Ends : \A j \in Ends : k <= j
           IN  <<SubSeq(text, 1, k)>>
                 \o tokenizer_sentences(SubSeq(text, k + 1, Len(text)))

\* tokenizer.sentences(text).map((s) => s.trim())
TrimmedSentences(text) ==
  LET ss == tokenizer_sentences(text) IN [i \in 1..Len(ss) |-> trim(ss[i])]

\* A split_segments that pairs the sentences up to the shorter of the two
\* lists instead of falling back to the whole texts: the partial alignment
\* that C8 rules out.
split_segments_truncating(source_text, translated_text) ==
  LET source_segments == TrimmedSentences(source_text)
      translated_segments == TrimmedSentences(translated_text)
      n == IF Len(source_segments) < Len(translated_segments)
           THEN Len(source_segments) ELSE Len(translated_segments)
  IN  [source_segments |-> SubSeq(source_segments, 1, n),
       translated_segments |-> SubSeq(translated_segments, 1, n)]

\* split_segments(source_text, translated_text) of /add-translation: both
\* texts are given (and truthy: the handler has validated them).
split_segments(source_text, translated_text) ==
  LET source_segments == TrimmedSentences(source_text)
      translated_segments == TrimmedSentences(translated_text)
  IN  IF Len(source_segments) = Len(translated_segments)
      THEN [source_segments |-> source_segments,
            translated_segments |-> translated_segments]
      ELSE [source_segments |-> <<trim(source_text)>>,
            translated_segments |-> <<trim(translated_text)>>]

\* split_segments(source_text) of /translate: no translated text.
split_source_segments(source_text) == TrimmedSentences(source_text)

\* ---------------------------------------------------------------- scoring

RemoveWhitespace(s) == SelectSeq(s, LAMBDA c : c \notin Whitespace)

Bigrams(s) == [i \in 1..(Len(s) - 1) |-> <<s[i], s[i + 1]>>]

RECURSIVE RemoveOne(_, _)
RemoveOne(seq, x) ==
  IF seq = <<>> THEN <<>>
  ELSE IF Head(seq) = x THEN Tail(seq) ELSE <<Head(seq)>> \o RemoveOne(Tail(seq), x)

RECURSIVE IntersectionSize(_, _)
IntersectionSize(firstBigrams, secondBigrams) ==
  IF secondBigrams = <<>> THEN 0
  ELSE IF \E i \in 1..Len(firstBigrams) : firstBigrams[i] = Head(secondBigrams)
       THEN 1 + IntersectionSize(RemoveOne(firstBigrams, Head(secondBigrams)),
                                 Tail(secondBigrams))
       ELSE IntersectionSize(firstBigrams, Tail(secondBigrams))

\* stringSimilarity.compareTwoStrings (Dice coefficient over bigrams), as the
\* fraction <<numerator, denominator>>.
compareTwoStrings(first, second) ==
  LET a == RemoveWhitespace(first)
      b == RemoveWhitespace(second)
  IN  IF a = b THEN <<1, 1>>
      ELSE IF Len(a) < 2 \/ Len(b) < 2 THEN <<0, 1>>
      ELSE <<2 * IntersectionSize(Bigrams(a), Bigrams(b)), Len(a) + Len(b) - 2>>

\* +(similarity * 100).toFixed(2), in hundredths of a percent (5000 is 50.00).
Percentage(similarity) ==
  (2 * 10000 * similarity[1] + similarity[2]) \div (2 * similarity[2])

\* The reuse threshold, in percent.
Threshold == 50

\* ----------------------------------------------------------------- inputs

en == <<"e","n">>

fr == <<"f","r">>

korean == non_segment_languages[3]

NoBody == [kind |-> "none", source_lang |-> Undefined, target_lang |-> Undefined,
           source_text |-> Undefined, translated_text |-> Undefined]

AddBody(sl, tl, st, tt) ==
  [kind |-> "add", source_lang |-> sl, target_lang |-> tl,
   source_text |-> st, translated_text |-> tt]

TranslateBody(sl, tl, st) ==
  [kind |-> "translate", source_lang |-> sl, target_lang |-> tl,
   source_text |-> st, translated_text |-> Undefined]

\* Request bodies of POST /add-translation: one and two sentences, a
\* translation with fewer sentences than its source, a source that differs
\* from another in letter case only, a sentence repeated within one text, three
\* sentences, a non-segmenting target language, fields that need normalizing,
\* and fields that are empty after normalization, or missing.
AddBodies ==
  { AddBody(en, fr, <<"a",".">>, <<"x",".">>),
    AddBody(en, fr, <<"a","."," ","b",".">>, <<"x","."," ","y",".">>),
    AddBody(en, fr, <<"a","."," ","b",".">>, <<"x",".">>),
    AddBody(en, fr, <<"A",".">>, <<"y",".">>),
    AddBody(en, fr, <<"a","."," ","a",".">>, <<"x","."," ","y",".">>),
    AddBody(en, fr, <<"a","."," ","b","."," ","c",".">>,
                    <<"x","."," ","y","."," ","z",".">>),
    AddBody(en, korean, <<"a","."," ","b",".">>, <<"x","."," ","y",".">>),
    AddBody(<<" ","E","N">>, <<"F","R"," ">>,
            <<"<","i",">","b",".","<","/","i",">"," ","EMOJI">>, <<" ","y",".">>),
    AddBody(en, fr, <<"EMOJI"," ">>, <<"x",".">>),
    AddBody(Undefined, fr, <<"a",".">>, <<"x",".">>),
    AddBody(en, fr, Undefined, <<"x",".">>) }

\* Request bodies of POST /translate.
TranslateBodies ==
  { TranslateBody(en, fr, <<"a",".">>),
    TranslateBody(en, fr, <<"a","."," ","b",".">>),
    TranslateBody(en, fr, <<"a"," ","b",".">>),
    TranslateBody(en, korean, <<"a","."," ","b",".">>),
    TranslateBody(en, fr, <<"<","b",">">>),
    TranslateBody(en, fr, Undefined) }

\* ------------------------------------------------------------------ state

\* Request slots: the requests that can be in flight at once.
Slots == {1, 2}

\* The slots of the one-request-at-a-time specification.
Sequential == {1}

VARIABLES
  indices,              \* the search engine: names of the existing indices
  docs,                 \* the search engine: the documents, docs[id]
  nreq,                 \* requests received so far
  pc,                   \* per slot: where the handler is
  req,                  \* per slot: req.body as received
  lang,                 \* per slot: source_lang, target_lang after normalization
  index_name,           \* per slot
  source_segments,      \* per slot
  translated_segments,  \* per slot
  awaiting,             \* per slot: segments whose search is in flight
  mtwait,               \* per slot: segments whose chatgpt call is in flight
  hits,                 \* per slot: the search answer for each segment
  completed,            \* per slot: the segments in the order their tasks completed
  bulkBody,             \* per slot: one entry per action/document line pair
  items,                \* per slot: bulkResponse.items
  results,              \* per slot
  response,             \* per slot: what res.status(..).json(..) sent
  ops,                  \* per slot: oracle calls issued by the request so far
  docsAtStart,          \* per slot: docs when the request was received
  prev,                 \* per slot: the exchange before the current one
  files,                \* the ingestion job: res.data.files of drive.files.list
  job,                  \* the ingestion job: where it is, and its locals for the current file
  calls,                \* the ingestion job: the calls it has issued, with the file each is for
  console               \* the ingestion job: what it has logged, with the file each line is for

vars == <<indices, docs, nreq, pc, req, lang, index_name, source_segments,
          translated_segments, awaiting, mtwait, hits, completed, bulkBody, items, results,
          response, ops, docsAtStart, prev, files, job, calls, console>>

\* The state of the spreadsheet ingestion job (drive.ts).
jobVars == <<files, job, calls, console>>

\* The job before listFilesInFolder runs.  file is the position of the `for
\* (const file of files)` loop; the other fields are the locals of its body.
NoJob == [pc |-> "idle", file |-> 0, rows |-> <<>>, segmentMap |-> <<>>,
          existingHits |-> <<>>, bulkBody |-> <<>>]

NoLang == [source_lang |-> Undefined, target_lang |-> Undefined]

NoResponse == [status |-> 0, error |-> "", segments |-> <<>>, translated_text |-> <<>>]

NoOps == [exists |-> 0, create |-> 0, search |-> 0, bulk |-> 0, chatgpt |-> 0]

NoExchange == [req |-> NoBody, response |-> NoResponse, fresh |-> FALSE]

\* An array slot of Promise.all that no task has settled yet.
Unsettled ==
  [settled |-> FALSE, found |-> FALSE, _id |-> Null, source_text |-> <<>>,
   translated_text |-> <<>>, query |-> <<>>]

UnsettledResult ==
  [settled |-> FALSE, segment |-> <<>>, translated_text |-> <<>>,
   source_text |-> Undefined, similarity |-> 0, source |-> ""]

Init ==
  /\ indices = {}
  /\ docs = <<>>
  /\ nreq = 0
  /\ pc = [r \in Slots |-> "idle"]
  /\ req = [r \in Slots |-> NoBody]
  /\ lang = [r \in Slots |-> NoLang]
  /\ index_name = [r \in Slots |-> <<>>]
  /\ source_segments = [r \in Slots |-> <<>>]
  /\ translated_segments = [r \in Slots |-> <<>>]
  /\ awaiting = [r \in Slots |-> {}]
  /\ mtwait = [r \in Slots |-> {}]
  /\ hits = [r \in Slots |-> <<>>]
  /\ completed = [r \in Slots |-> <<>>]
  /\ bulkBody = [r \in Slots |-> <<>>]
  /\ items = [r \in Slots |-> <<>>]
  /\ results = [r \in Slots |-> <<>>]
  /\ response = [r \in Slots |-> NoResponse]
  /\ ops = [r \in Slots |-> NoOps]
  /\ docsAtStart = [r \in Slots |-> <<>>]
  /\ prev = [r \in Slots |-> NoExchange]
  /\ files = <<>>
  /\ job = NoJob
  /\ calls = <<>>
  /\ console = <<>>

\* ---------------------------------------------------------- search engine

\* `translations(${target_lang})`
IndexName(target_lang) == <<"translations", "(">> \o target_lang \o <<")">>

\* An exact query without the term filter on source_lang: the filter that
\* C24 depends on.
ExactMatchesAnySource(ds, index, source_lang, target_lang, source_text) ==
  {id \in 1..Len(ds) :
     /\ ds[id]._index = index
     /\ ds[id].target_lang = target_lang
     /\ toLowerCase(ds[id].source_text) = toLowerCase(toLowerCase(source_text))}

\* The documents of ds that the bool/must query of find_translation_segment
\* matches: three term filters, the last on the lower-cased keyword subfield.
ExactMatches(ds, index, source_lang, target_lang, source_text) ==
  {id \in 1..Len(ds) :
     /\ ds[id]._index = index
     /\ ds[id].source_lang = source_lang
     /\ ds[id].target_lang = target_lang
     /\ toLowerCase(ds[id].source_text) = toLowerCase(toLowerCase(source_text))}

\* The documents the must clauses of fuzzy_search let through; which of them
\* the should clauses rank first is the engine's business.
FuzzyCandidates(ds, index, source_lang, target_lang) ==
  {id \in 1..Len(ds) :
     /\ ds[id]._index = index
     /\ ds[id].source_lang = source_lang
     /\ ds[id].target_lang = target_lang}

\* searchResult.hits.hits[0] for document id (Null: no hit), for query q.
HitOf(ds, id, q) ==
  IF id = Null
  THEN [settled |-> TRUE, found |-> FALSE, _id |-> Null, source_text |-> <<>>,
        translated_text |-> <<>>, query |-> q]
  ELSE [settled |-> TRUE, found |-> TRUE, _id |-> id,
        source_text |-> ds[id].source_text,
        translated_text |-> ds[id].translated_text, query |-> q]

\* A bulk write over a store that keeps source texts unique per language pair:
\* an index operation whose source text is stored already (case-insensitively)
\* overwrites that segment instead of adding one.  The mutual exclusion that
\* C11 says is absent.
RECURSIVE ApplyBulkUnique(_, _, _)
ApplyBulkUnique(body, ds, its) ==
  IF body = <<>> THEN [docs |-> ds, items |-> its]
  ELSE LET o == Head(body)
           same == IF o.op = "update" THEN {}
                   ELSE ExactMatches(ds, o._index, o.source_lang, o.target_lang,
                                     o.source_text)
       IN
       IF o.op = "update"
       THEN ApplyBulkUnique(Tail(body),
                            [ds EXCEPT ![o._id].translated_text = o.translated_text],
                            Append(its, [op |-> "update", _id |-> o._id, error |-> FALSE]))
       ELSE IF same # {}
       THEN LET id == CHOOSE id \in same : \A k \in same : id <= k
            IN  ApplyBulkUnique(Tail(body),
                                [ds EXCEPT ![id].translated_text = o.translated_text],
                                Append(its, [op |-> "index", _id |-> id, error |-> FALSE]))
       ELSE ApplyBulkUnique(Tail(body),
                            Append(ds, [_index |-> o._index,
                                        source_lang |-> o.source_lang,
                                        target_lang |-> o.target_lang,
                                        source_text |-> o.source_text,
                                        translated_text |-> o.translated_text]),
                            Append(its, [op |-> "index", _id |-> Len(ds) + 1, error |-> FALSE]))

\* A bulk write whose update replaces the stored document by the partial
\* document of the operation (what an index operation with an _id does): the
\* fields the operation does not carry are lost.  The frame that C17 fixes.
RECURSIVE ApplyBulkReplacing(_, _, _)
ApplyBulkReplacing(body, ds, its) ==
  IF body = <<>> THEN [docs |-> ds, items |-> its]
  ELSE LET o == Head(body)
           doc == [_index |-> o._index,
                   source_lang |-> o.source_lang,
                   target_lang |-> o.target_lang,
                   source_text |-> o.source_text,
                   translated_text |-> o.translated_text]
       IN
       IF o.op = "update"
       THEN ApplyBulkReplacing(Tail(body), [ds EXCEPT ![o._id] = doc],
                               Append(its, [op |-> "update", _id |-> o._id, error |-> FALSE]))
       ELSE ApplyBulkReplacing(Tail(body), Append(ds, doc),
                               Append(its, [op |-> "index", _id |-> Len(ds) + 1, error |-> FALSE]))

\* es_client.bulk: the operations applied in order; an index operation gets
\* the next identifier; one item per operation in the answer.
RECURSIVE ApplyBulk(_, _, _)
ApplyBulk(body, ds, its) ==
  IF body = <<>> THEN [docs |-> ds, items |-> its]
  ELSE LET o == Head(body) IN
       IF o.op = "update"
       THEN ApplyBulk(Tail(body),
                      [ds EXCEPT ![o._id].translated_text = o.translated_text],
                      Append(its, [op |-> "update", _id |-> o._id, error |-> FALSE]))
       ELSE ApplyBulk(Tail(body),
                      Append(ds, [_index |-> o._index,
                                  source_lang |-> o.source_lang,
                                  target_lang |-> o.target_lang,
                                  source_text |-> o.source_text,
                                  translated_text |-> o.translated_text]),
                      Append(its, [op |-> "index", _id |-> Len(ds) + 1, error |-> FALSE]))

\* The identifier the engine reports in the item of an index operation it
\* rejected: no stored document has it.
Rejected == -1

\* es_client.bulk when the engine rejects the operations at the positions in
\* failed (a full write queue, a mapping conflict, a version conflict): the
\* other operations are applied, the call returns normally, and the item of a
\* rejected operation carries an error (bulkResponse.errors is true).  k is
\* the position of the first operation of body in the request.
RECURSIVE ApplyBulkFailing(_, _, _, _, _)
ApplyBulkFailing(body, ds, its, failed, k) ==
  IF body = <<>> THEN [docs |-> ds, items |-> its]
  ELSE LET o == Head(body) IN
       IF k \in failed
       THEN ApplyBulkFailing(Tail(body), ds,
                             Append(its, [op |-> o.op,
                                          _id |-> IF o.op = "update" THEN o._id
                                                  ELSE Rejected,
                                          error |-> TRUE]),
                             failed, k + 1)
       ELSE IF o.op = "update"
       THEN ApplyBulkFailing(Tail(body),
                             [ds EXCEPT ![o._id].translated_text = o.translated_text],
                             Append(its, [op |-> "update", _id |-> o._id,
                                          error |-> FALSE]),
                             failed, k + 1)
       ELSE ApplyBulkFailing(Tail(body),
                             Append(ds, [_index |-> o._index,
                                         source_lang |-> o.source_lang,
                                         target_lang |-> o.target_lang,
                                         source_text |-> o.source_text,
                                         translated_text |-> o.translated_text]),
                             Append(its, [op |-> "index", _id |-> Len(ds) + 1,
                                          error |-> FALSE]),
                             failed, k + 1)

\* Errors of the search-engine client.
EsErrors ==
  { [name |-> "ResponseError", statusCode |-> 503],
    [name |-> "ResponseError", statusCode |-> 500],
    [name |-> "ConnectionError", statusCode |-> 0],
    [name |-> "TimeoutError", statusCode |-> 0] }

\* What is thrown by anything else: normalize_text(undefined), the OpenAI client.
OtherError(message) == [name |-> message, statusCode |-> 0]

handle_elastic_error(err) ==
  IF err.name = "ResponseError"
  THEN [NoResponse EXCEPT !.status = IF err.statusCode # 0 THEN err.statusCode ELSE 500,
                          !.error = "ResponseError"]
  ELSE IF err.name = "ConnectionError"
  THEN [NoResponse EXCEPT !.status = 502, !.error = "Elasticsearch connection error"]
  ELSE IF err.name = "TimeoutError"
  THEN [NoResponse EXCEPT !.status = 504, !.error = "Elasticsearch timeout"]
  ELSE [NoResponse EXCEPT !.status = 500, !.error = err.name]

\* The fallback translator, an opaque oracle: some text that depends on the
\* segment.
chatgpt(source_lang, target_lang, source_text) == <<"m">> \o source_text

\* ------------------------------------------------------ POST /add-translation

\* The handler up to its first await: normalization, validation, segmentation.
\* normalize_text(undefined) throws a TypeError, which the handler's catch
\* hands to handle_elastic_error.
AddPrepare(body) ==
  LET source_lang == normalize_lang(body.source_lang)
      target_lang == normalize_lang(body.target_lang)
      thrown == body.source_text = Undefined \/ body.translated_text = Undefined
      source_text == IF thrown THEN <<>> ELSE normalize_text(body.source_text)
      translated_text == IF thrown THEN <<>> ELSE normalize_text(body.translated_text)
      invalid == Falsy(source_lang) \/ Falsy(target_lang)
                   \/ Falsy(source_text) \/ Falsy(translated_text)
      segmentResult == split_segments(source_text, translated_text)
      segmenting == ~includes(non_segment_languages, target_lang)
  IN  IF thrown
      THEN [pc |-> "done", lang |-> [source_lang |-> source_lang, target_lang |-> target_lang],
            index_name |-> <<>>, source_segments |-> <<>>, translated_segments |-> <<>>,
            response |-> handle_elastic_error(OtherError("TypeError")), ops |-> NoOps]
      ELSE IF invalid
      THEN [pc |-> "done", lang |-> [source_lang |-> source_lang, target_lang |-> target_lang],
            index_name |-> <<>>, source_segments |-> <<>>, translated_segments |-> <<>>,
            response |-> [NoResponse EXCEPT !.status = 400,
                                            !.error = "All fields are required"],
            ops |-> NoOps]
      ELSE [pc |-> "exists", lang |-> [source_lang |-> source_lang, target_lang |-> target_lang],
            index_name |-> IndexName(target_lang),
            source_segments |-> IF segmenting THEN segmentResult.source_segments
                                ELSE <<source_text>>,
            translated_segments |-> IF segmenting THEN segmentResult.translated_segments
                                    ELSE <<translated_text>>,
            response |-> NoResponse,
            ops |-> [NoOps EXCEPT !.exists = 1]]

\* The exchange a slot has just finished, kept while the next one runs when it
\* was an add-translation answered with its segments; fresh: no stored segment
\* matched any of its source segments when it was received.
Exchange(r) ==
  IF pc[r] = "done" /\ req[r].kind = "add" /\ response[r].status = 200
  THEN [req |-> req[r], response |-> response[r],
        fresh |-> \A i \in 1..Len(source_segments[r]) :
                    ExactMatches(docsAtStart[r], index_name[r], lang[r].source_lang,
                                 lang[r].target_lang, source_segments[r][i]) = {}]
  ELSE NoExchange

\* A request arrives at a free slot and its handler runs to its first await
\* (or to its response, when it is rejected).
Receive(r, body, p) ==
  /\ pc[r] \in {"idle", "done"}
  /\ nreq < MaxReqs
  /\ nreq' = nreq + 1
  /\ prev' = [prev EXCEPT ![r] = Exchange(r)]
  /\ req' = [req EXCEPT ![r] = body]
  /\ docsAtStart' = [docsAtStart EXCEPT ![r] = docs]
  /\ pc' = [pc EXCEPT ![r] = p.pc]
  /\ lang' = [lang EXCEPT ![r] = p.lang]
  /\ index_name' = [index_name EXCEPT ![r] = p.index_name]
  /\ source_segments' = [source_segments EXCEPT ![r] = p.source_segments]
  /\ translated_segments' = [translated_segments EXCEPT ![r] = p.translated_segments]
  /\ response' = [response EXCEPT ![r] = p.response]
  /\ ops' = [ops EXCEPT ![r] = p.ops]
  /\ awaiting' = [awaiting EXCEPT ![r] = {}]
  /\ mtwait' = [mtwait EXCEPT ![r] = {}]
  /\ hits' = [hits EXCEPT ![r] = <<>>]
  /\ completed' = [completed EXCEPT ![r] = <<>>]
  /\ bulkBody' = [bulkBody EXCEPT ![r] = <<>>]
  /\ items' = [items EXCEPT ![r] = <<>>]
  /\ results' = [results EXCEPT ![r] = <<>>]
  /\ UNCHANGED <<indices, docs, jobVars>>

AddStart(r, body) == Receive(r, body, AddPrepare(body))

\* ---------------------------------------------------------- POST /translate

\* The handler up to its first await.  split_segments is called whatever the
\* target language is.
TranslatePrepare(body) ==
  LET source_lang == normalize_lang(body.source_lang)
      target_lang == normalize_lang(body.target_lang)
      thrown == body.source_text = Undefined
      source_text == IF thrown THEN <<>> ELSE normalize_text(body.source_text)
      invalid == Falsy(source_lang) \/ Falsy(target_lang) \/ Falsy(source_text)
  IN  IF thrown
      THEN [pc |-> "done", lang |-> [source_lang |-> source_lang, target_lang |-> target_lang],
            index_name |-> <<>>, source_segments |-> <<>>, translated_segments |-> <<>>,
            response |-> handle_elastic_error(OtherError("TypeError")), ops |-> NoOps]
      ELSE IF invalid
      THEN [pc |-> "done", lang |-> [source_lang |-> source_lang, target_lang |-> target_lang],
            index_name |-> <<>>, source_segments |-> <<>>, translated_segments |-> <<>>,
            response |-> [NoResponse EXCEPT !.status = 400,
                                            !.error = "All fields are required"],
            ops |-> NoOps]
      ELSE [pc |-> "exists", lang |-> [source_lang |-> source_lang, target_lang |-> target_lang],
            index_name |-> IndexName(toLowerCase(target_lang)),
            source_segments |-> split_source_segments(source_text),
            translated_segments |-> <<>>,
            response |-> NoResponse,
            ops |-> [NoOps EXCEPT !.exists = 1]]

TranslateStart(r, body) == Receive(r, body, TranslatePrepare(body))

\* ------------------------------------------------ ensure_translations_index

\* The handler goes on after ensure_translations_index: one search per source
\* segment, all issued at once (Promise.all over source_segments.map).
IssueSearches(r) ==
  LET n == Len(source_segments[r]) IN
  /\ pc' = [pc EXCEPT ![r] = IF req[r].kind = "add" THEN "lookup" ELSE "fuzzy"]
  /\ awaiting' = [awaiting EXCEPT ![r] = 1..n]
  /\ hits' = [hits EXCEPT ![r] = [i \in 1..n |-> Unsettled]]
  /\ results' = [results EXCEPT ![r] =
                   IF req[r].kind = "add" THEN <<>> ELSE [i \in 1..n |-> UnsettledResult]]

\* es_client.indices.exists answers.
IndexExists(r) ==
  /\ pc[r] = "exists"
  /\ IF index_name[r] \in indices
     THEN /\ IssueSearches(r)
          /\ ops' = [ops EXCEPT ![r].search = @ + Len(source_segments[r])]
     ELSE /\ pc' = [pc EXCEPT ![r] = "create"]
          /\ ops' = [ops EXCEPT ![r].create = @ + 1]
          /\ UNCHANGED <<awaiting, hits, results>>
  /\ UNCHANGED <<indices, docs, nreq, req, lang, index_name, source_segments,
                 translated_segments, mtwait, completed, bulkBody, items, response,
                 docsAtStart, prev, jobVars>>

\* es_client.indices.create answers: the index is created, or the engine
\* refuses because it exists by now (resource_already_exists_exception, 400).
IndexCreate(r) ==
  /\ pc[r] = "create"
  /\ IF index_name[r] \in indices
     THEN /\ pc' = [pc EXCEPT ![r] = "done"]
          /\ response' = [response EXCEPT ![r] =
                            handle_elastic_error([name |-> "ResponseError",
                                                  statusCode |-> 400])]
          /\ UNCHANGED <<indices, awaiting, hits, results, ops>>
     ELSE /\ indices' = indices \cup {index_name[r]}
          /\ IssueSearches(r)
          /\ ops' = [ops EXCEPT ![r].search = @ + Len(source_segments[r])]
          /\ UNCHANGED response
  /\ UNCHANGED <<docs, nreq, req, lang, index_name, source_segments,
                 translated_segments, mtwait, completed, bulkBody, items,
                 docsAtStart, prev, jobVars>>

\* ------------------------------------------------- the upsert of one request

\* A join that collects the values in the order the tasks complete (the first
\* free index) instead of at the index of the task: the reordering that C7
\* rules out.
PromiseAllCompletionOrder(arr, i, v) ==
  LET free == {k \in 1..Len(arr) : ~arr[k].settled}
  IN  IF free = {} THEN arr
      ELSE [arr EXCEPT ![CHOOSE k \in free : \A j \in free : k <= j] = v]

\* Promise.all: the value of task i lands at index i of the array, whenever
\* the task completes.
PromiseAllResolve(arr, i, v) == [arr EXCEPT ![i] = v]

\* find_translation_segment answers for segment i: hits[0] of the exact query,
\* any of the matching documents when there are several.
Lookup(r, i) ==
  /\ pc[r] = "lookup"
  /\ i \in awaiting[r]
  /\ LET q == source_segments[r][i]
         m == ExactMatches(docs, index_name[r], lang[r].source_lang,
                           lang[r].target_lang, q)
     IN  \E id \in (IF m = {} THEN {Null} ELSE m) :
           hits' = [hits EXCEPT ![r] = PromiseAllResolve(hits[r], i, HitOf(docs, id, q))]
  /\ awaiting' = [awaiting EXCEPT ![r] = @ \ {i}]
  /\ completed' = [completed EXCEPT ![r] = Append(@, i)]
  /\ UNCHANGED <<indices, docs, nreq, pc, req, lang, index_name, source_segments,
                 translated_segments, mtwait, bulkBody, items, results, response,
                 ops, docsAtStart, prev, jobVars>>

\* translated_segments[i], undefined past the end of the array.
At(arr, i) == IF i \in 1..Len(arr) THEN arr[i] ELSE Undefined

\* A BulkOp that ignores the lookup and always inserts: the decision that C4
\* rules out.
BulkOpAlwaysIndex(index, source_lang, target_lang, source_segment, translated_segment, hit) ==
  [op |-> "index", _index |-> index, _id |-> Null,
   source_lang |-> source_lang, target_lang |-> target_lang,
   source_text |-> source_segment, translated_text |-> translated_segment]

\* The action/document line pair pushed to bulkBody for one segment.
BulkOp(index, source_lang, target_lang, source_segment, translated_segment, hit) ==
  IF hit.found
  THEN [op |-> "update", _index |-> index, _id |-> hit._id,
        source_lang |-> Undefined, target_lang |-> Undefined,
        source_text |-> Undefined, translated_text |-> translated_segment]
  ELSE [op |-> "index", _index |-> index, _id |-> Null,
        source_lang |-> source_lang, target_lang |-> target_lang,
        source_text |-> source_segment, translated_text |-> translated_segment]

\* The entry pushed to results for one segment.
ResultOf(source_segment, hit) ==
  IF hit.found
  THEN [segment |-> source_segment, id |-> hit._id, action |-> "updated"]
  ELSE [segment |-> source_segment, id |-> Null, action |-> "inserted"]

\* insertIdx when the mapping loop reaches results[i].
InsertIdx(res, i) == Cardinality({j \in 1..(i - 1) : res[j].action = "inserted"})

\* The loop that maps the engine's identifiers back:
\* bulkResponse.items[insertIdx]?.index?._id || null, for the inserted results.
MapInsertIds(res, its) ==
  [i \in 1..Len(res) |->
     IF res[i].action = "inserted"
     THEN LET k == InsertIdx(res, i) + 1
          IN  [res[i] EXCEPT !.id = IF k <= Len(its) /\ its[k].op = "index"
                                    THEN its[k]._id ELSE Null]
     ELSE res[i]]

Ok(body) == [NoResponse EXCEPT !.status = 200, !.segments = body]

\* A handler that builds and sends the bulk request without waiting for all
\* its lookups (a lookup not answered yet counts as a miss): the ordering that
\* C22 fixes.
AddBuildEager(r) ==
  /\ pc[r] = "lookup"
  /\ LET n == Len(source_segments[r])
         body == [i \in 1..n |->
                    BulkOp(index_name[r], lang[r].source_lang, lang[r].target_lang,
                           source_segments[r][i], At(translated_segments[r], i),
                           hits[r][i])]
         res == [i \in 1..n |-> ResultOf(source_segments[r][i], hits[r][i])]
     IN  /\ bulkBody' = [bulkBody EXCEPT ![r] = body]
         /\ results' = [results EXCEPT ![r] = res]
         /\ IF n > 0
            THEN /\ pc' = [pc EXCEPT ![r] = "bulk"]
                 /\ ops' = [ops EXCEPT ![r].bulk = @ + 1]
                 /\ UNCHANGED response
            ELSE /\ pc' = [pc EXCEPT ![r] = "done"]
                 /\ response' = [response EXCEPT ![r] = Ok(res)]
                 /\ UNCHANGED ops
  /\ UNCHANGED completed
  /\ UNCHANGED <<indices, docs, nreq, req, lang, index_name, source_segments,
                 translated_segments, awaiting, mtwait, hits, items, docsAtStart,
                 prev, jobVars>>

\* All lookups have answered: the handler builds bulkBody and results and
\* sends the bulk request (or answers at once when there is nothing to write).
AddBuild(r) ==
  /\ pc[r] = "lookup"
  /\ awaiting[r] = {}
  /\ LET n == Len(source_segments[r])
         body == [i \in 1..n |->
                    BulkOp(index_name[r], lang[r].source_lang, lang[r].target_lang,
                           source_segments[r][i], At(translated_segments[r], i),
                           hits[r][i])]
         res == [i \in 1..n |-> ResultOf(source_segments[r][i], hits[r][i])]
     IN  /\ bulkBody' = [bulkBody EXCEPT ![r] = body]
         /\ results' = [results EXCEPT ![r] = res]
         /\ IF n > 0
            THEN /\ pc' = [pc EXCEPT ![r] = "bulk"]
                 /\ ops' = [ops EXCEPT ![r].bulk = @ + 1]
                 /\ UNCHANGED response
            ELSE /\ pc' = [pc EXCEPT ![r] = "done"]
                 /\ response' = [response EXCEPT ![r] = Ok(res)]
                 /\ UNCHANGED ops
  /\ UNCHANGED completed
  /\ UNCHANGED <<indices, docs, nreq, req, lang, index_name, source_segments,
                 translated_segments, awaiting, mtwait, hits, items, docsAtStart,
                 prev, jobVars>>

\* es_client.bulk with refresh: "wait_for": the engine applies the operations
\* and makes them searchable.
BulkWrite(r) ==
  /\ pc[r] = "bulk"
  /\ LET out == ApplyBulk(bulkBody[r], docs, <<>>)
     IN  /\ docs' = out.docs
         /\ items' = [items EXCEPT ![r] = out.items]
  /\ pc' = [pc EXCEPT ![r] = "respond"]
  /\ UNCHANGED completed
  /\ UNCHANGED <<indices, nreq, req, lang, index_name, source_segments,
                 translated_segments, awaiting, mtwait, hits, bulkBody, results,
                 response, ops, docsAtStart, prev, jobVars>>

\* es_client.bulk returns normally with some operations rejected.
BulkWriteErrors(r) ==
  /\ pc[r] = "bulk"
  /\ \E failed \in (SUBSET (1..Len(bulkBody[r]))) \ {{}} :
       LET out == ApplyBulkFailing(bulkBody[r], docs, <<>>, failed, 1)
       IN  /\ docs' = out.docs
           /\ items' = [items EXCEPT ![r] = out.items]
  /\ pc' = [pc EXCEPT ![r] = "respond"]
  /\ UNCHANGED completed
  /\ UNCHANGED <<indices, nreq, req, lang, index_name, source_segments,
                 translated_segments, awaiting, mtwait, hits, bulkBody, results,
                 response, ops, docsAtStart, prev, jobVars>>

\* A handler that answers only when some segment was inserted (the response
\* sent from inside the identifier loop): a request whose segments were all
\* updated is never answered.  The omission that C25 rules out.
AddRespondInsertsOnly(r) ==
  /\ pc[r] = "respond"
  /\ \E i \in 1..Len(results[r]) : results[r][i].action = "inserted"
  /\ LET res == MapInsertIds(results[r], items[r])
     IN  /\ results' = [results EXCEPT ![r] = res]
         /\ response' = [response EXCEPT ![r] = Ok(res)]
  /\ pc' = [pc EXCEPT ![r] = "done"]
  /\ UNCHANGED completed
  /\ UNCHANGED <<indices, docs, nreq, req, lang, index_name, source_segments,
                 translated_segments, awaiting, mtwait, hits, bulkBody, items, ops,
                 docsAtStart, prev, jobVars>>

\* The bulk answer has arrived: identifiers are mapped back and the response
\* is sent.
AddRespond(r) ==
  /\ pc[r] = "respond"
  /\ LET res == MapInsertIds(results[r], items[r])
     IN  /\ results' = [results EXCEPT ![r] = res]
         /\ response' = [response EXCEPT ![r] = Ok(res)]
  /\ pc' = [pc EXCEPT ![r] = "done"]
  /\ UNCHANGED completed
  /\ UNCHANGED <<indices, docs, nreq, req, lang, index_name, source_segments,
                 translated_segments, awaiting, mtwait, hits, bulkBody, items, ops,
                 docsAtStart, prev, jobVars>>

\* ------------------------------------------------ the lookup of one segment

\* A fuzzy_search that drops a hit scoring exactly 50 too (<= for <): the
\* boundary that C6 fixes.
fuzzy_search_exclusive(source_text, hit) ==
  LET percentage == Percentage(compareTwoStrings(source_text, hit.source_text))
  IN  IF ~hit.found THEN [found |-> FALSE, hit |-> hit, similarity |-> 0]
      ELSE IF percentage <= Threshold * 100
           THEN [found |-> FALSE, hit |-> hit, similarity |-> 0]
           ELSE [found |-> TRUE, hit |-> hit, similarity |-> percentage]

\* fuzzy_search after the engine's answer: the hit with its similarity, or
\* undefined (found = FALSE) when there is no hit or it scores below 50.
fuzzy_search(source_text, hit) ==
  LET percentage == Percentage(compareTwoStrings(source_text, hit.source_text))
  IN  IF ~hit.found THEN [found |-> FALSE, hit |-> hit, similarity |-> 0]
      ELSE IF percentage < Threshold * 100
           THEN [found |-> FALSE, hit |-> hit, similarity |-> 0]
           ELSE [found |-> TRUE, hit |-> hit, similarity |-> percentage]

\* The result of a segment taken from the store.
CatResult(source_segment, fz) ==
  [settled |-> TRUE, segment |-> source_segment,
   translated_text |-> fz.hit.translated_text, source_text |-> fz.hit.source_text,
   similarity |-> fz.similarity, source |-> "CAT Tool"]

\* The result of a segment sent to the fallback translator.
GptResult(source_segment, translated_text) ==
  [settled |-> TRUE, segment |-> source_segment, translated_text |-> translated_text,
   source_text |-> Undefined, similarity |-> 0, source |-> "ChatGPT"]

\* if (hit && hit._source?.translated_text)
Reusable(fz) == fz.found /\ ~Falsy(fz.hit.translated_text)

\* The engine answers the fuzzy query of segment i with its top hit, or with
\* none; the callback of segment i scores it and either returns the stored
\* translation or calls chatgpt.
FuzzySearch(r, i) ==
  /\ pc[r] = "fuzzy"
  /\ i \in awaiting[r]
  /\ \E id \in FuzzyCandidates(docs, index_name[r], lang[r].source_lang,
                               lang[r].target_lang) \cup {Null} :
       LET q == source_segments[r][i]
           hit == HitOf(docs, id, q)
           fz == fuzzy_search(q, hit)
       IN  /\ hits' = [hits EXCEPT ![r][i] = hit]
           /\ IF Reusable(fz)
              THEN /\ results' = [results EXCEPT ![r] =
                                    PromiseAllResolve(results[r], i, CatResult(q, fz))]
                   /\ completed' = [completed EXCEPT ![r] = Append(@, i)]
                   /\ UNCHANGED <<mtwait, ops>>
              ELSE /\ mtwait' = [mtwait EXCEPT ![r] = @ \cup {i}]
                   /\ ops' = [ops EXCEPT ![r].chatgpt = @ + 1]
                   /\ UNCHANGED <<results, completed>>
  /\ awaiting' = [awaiting EXCEPT ![r] = @ \ {i}]
  /\ UNCHANGED <<indices, docs, nreq, pc, req, lang, index_name, source_segments,
                 translated_segments, bulkBody, items, response, docsAtStart, prev, jobVars>>

\* A fallback step that also indexes the machine translation as a segment:
\* the write-back that C5 rules out.
ChatGPTPersisting(r, i) ==
  /\ pc[r] = "fuzzy"
  /\ i \in mtwait[r]
  /\ LET q == source_segments[r][i]
         translated_text == chatgpt(lang[r].source_lang, lang[r].target_lang, q)
     IN  /\ results' = [results EXCEPT ![r] =
                          PromiseAllResolve(results[r], i, GptResult(q, translated_text))]
         /\ docs' = Append(docs, [_index |-> index_name[r],
                                  source_lang |-> lang[r].source_lang,
                                  target_lang |-> lang[r].target_lang,
                                  source_text |-> q,
                                  translated_text |-> translated_text])
  /\ mtwait' = [mtwait EXCEPT ![r] = @ \ {i}]
  /\ completed' = [completed EXCEPT ![r] = Append(@, i)]
  /\ UNCHANGED <<indices, nreq, pc, req, lang, index_name, source_segments,
                 translated_segments, awaiting, hits, bulkBody, items, response,
                 ops, docsAtStart, prev, jobVars>>

\* The fallback translator answers for segment i.
ChatGPT(r, i) ==
  /\ pc[r] = "fuzzy"
  /\ i \in mtwait[r]
  /\ LET q == source_segments[r][i]
         translated_text == chatgpt(lang[r].source_lang, lang[r].target_lang, q)
     IN  results' = [results EXCEPT ![r] =
                       PromiseAllResolve(results[r], i, GptResult(q, translated_text))]
  /\ mtwait' = [mtwait EXCEPT ![r] = @ \ {i}]
  /\ completed' = [completed EXCEPT ![r] = Append(@, i)]
  /\ UNCHANGED <<indices, docs, nreq, pc, req, lang, index_name, source_segments,
                 translated_segments, awaiting, hits, bulkBody, items, response,
                 ops, docsAtStart, prev, jobVars>>

\* results.map((r) => r.translated_text).join(" ")
RECURSIVE JoinTranslated(_)
JoinTranslated(res) ==
  IF res = <<>> THEN <<>>
  ELSE IF Len(res) = 1 THEN res[1].translated_text
  ELSE res[1].translated_text \o <<" ">> \o JoinTranslated(Tail(res))

\* Every segment has its result: the response is sent.
TranslateRespond(r) ==
  /\ pc[r] = "fuzzy"
  /\ awaiting[r] = {}
  /\ mtwait[r] = {}
  /\ response' = [response EXCEPT ![r] =
                    [NoResponse EXCEPT !.status = 200,
                                       !.translated_text = JoinTranslated(results[r]),
                                       !.segments = results[r]]]
  /\ pc' = [pc EXCEPT ![r] = "done"]
  /\ UNCHANGED completed
  /\ UNCHANGED <<indices, docs, nreq, req, lang, index_name, source_segments,
                 translated_segments, awaiting, mtwait, hits, bulkBody, items,
                 results, ops, docsAtStart, prev, jobVars>>

\* ------------------------------------------------------------------ failures

\* A failure after which the handler still writes the segment whose lookup
\* has answered already: the partial write that C20 rules out.
EsFailPartialWrite(r, err) ==
  LET answered == {i \in 1..Len(hits[r]) : req[r].kind = "add" /\ hits[r][i].settled}
      body == IF answered = {} THEN <<>>
              ELSE LET i == CHOOSE i \in answered : \A k \in answered : i <= k
                   IN  <<BulkOp(index_name[r], lang[r].source_lang, lang[r].target_lang,
                                source_segments[r][i], At(translated_segments[r], i),
                                hits[r][i])>>
  IN
  /\ \/ pc[r] \in {"exists", "create", "bulk"}
     \/ pc[r] \in {"lookup", "fuzzy"} /\ awaiting[r] # {}
  /\ docs' = ApplyBulk(body, docs, <<>>).docs
  /\ response' = [response EXCEPT ![r] = handle_elastic_error(err)]
  /\ pc' = [pc EXCEPT ![r] = "done"]
  /\ awaiting' = [awaiting EXCEPT ![r] = {}]
  /\ mtwait' = [mtwait EXCEPT ![r] = {}]
  /\ hits' = [hits EXCEPT ![r] = <<>>]
  /\ completed' = [completed EXCEPT ![r] = <<>>]
  /\ results' = [results EXCEPT ![r] = <<>>]
  /\ bulkBody' = [bulkBody EXCEPT ![r] = <<>>]
  /\ UNCHANGED <<indices, nreq, req, lang, index_name, source_segments,
                 translated_segments, items, ops, docsAtStart, prev, jobVars>>

\* A failure after which the failed call is issued again instead of being
\* surfaced: the silent retry that C23 rules out.
EsFailRetrying(r, err) ==
  /\ \/ pc[r] \in {"exists", "create", "bulk"}
     \/ pc[r] \in {"lookup", "fuzzy"} /\ awaiting[r] # {}
  /\ ops' = [ops EXCEPT ![r] =
               IF pc[r] = "exists" THEN [@ EXCEPT !.exists = @ + 1]
               ELSE IF pc[r] = "create" THEN [@ EXCEPT !.create = @ + 1]
               ELSE IF pc[r] = "bulk" THEN [@ EXCEPT !.bulk = @ + 1]
               ELSE [@ EXCEPT !.search = @ + 1]]
  /\ UNCHANGED <<indices, docs, nreq, pc, req, lang, index_name, source_segments,
                 translated_segments, awaiting, mtwait, hits, completed, bulkBody,
                 items, results, response, docsAtStart, prev, jobVars>>

\* A call to the search engine that is in flight fails: the await throws, the
\* handler's catch answers through handle_elastic_error; the handler's locals
\* go out of scope and what the other tasks of the request still return is
\* dropped.
EsFail(r, err) ==
  /\ \/ pc[r] \in {"exists", "create", "bulk"}
     \/ pc[r] \in {"lookup", "fuzzy"} /\ awaiting[r] # {}
  /\ response' = [response EXCEPT ![r] = handle_elastic_error(err)]
  /\ pc' = [pc EXCEPT ![r] = "done"]
  /\ awaiting' = [awaiting EXCEPT ![r] = {}]
  /\ mtwait' = [mtwait EXCEPT ![r] = {}]
  /\ hits' = [hits EXCEPT ![r] = <<>>]
  /\ completed' = [completed EXCEPT ![r] = <<>>]
  /\ results' = [results EXCEPT ![r] = <<>>]
  /\ bulkBody' = [bulkBody EXCEPT ![r] = <<>>]
  /\ UNCHANGED <<indices, docs, nreq, req, lang, index_name, source_segments,
                 translated_segments, items, ops, docsAtStart, prev, jobVars>>

\* A failure of the fallback translator that is swallowed: the segment gets
\* its own source text as its translation and the request goes on.  The silent
\* pass-through that C15 rules out.
ChatGPTFailPassThrough(r) ==
  /\ pc[r] = "fuzzy"
  /\ mtwait[r] # {}
  /\ \E i \in mtwait[r] :
       /\ results' = [results EXCEPT ![r] =
                        PromiseAllResolve(results[r], i,
                                          GptResult(source_segments[r][i],
                                                    source_segments[r][i]))]
       /\ mtwait' = [mtwait EXCEPT ![r] = @ \ {i}]
       /\ completed' = [completed EXCEPT ![r] = Append(@, i)]
  /\ UNCHANGED <<indices, docs, nreq, pc, req, lang, index_name, source_segments,
                 translated_segments, awaiting, hits, bulkBody, items, response,
                 ops, docsAtStart, prev, jobVars>>

\* A call to the fallback translator fails; its error is no search-engine
\* error, so handle_elastic_error answers 500.
ChatGPTFail(r) ==
  /\ pc[r] = "fuzzy"
  /\ mtwait[r] # {}
  /\ response' = [response EXCEPT ![r] = handle_elastic_error(OtherError("OpenAIError"))]
  /\ pc' = [pc EXCEPT ![r] = "done"]
  /\ awaiting' = [awaiting EXCEPT ![r] = {}]
  /\ mtwait' = [mtwait EXCEPT ![r] = {}]
  /\ hits' = [hits EXCEPT ![r] = <<>>]
  /\ completed' = [completed EXCEPT ![r] = <<>>]
  /\ results' = [results EXCEPT ![r] = <<>>]
  /\ bulkBody' = [bulkBody EXCEPT ![r] = <<>>]
  /\ UNCHANGED <<indices, docs, nreq, req, lang, index_name, source_segments,
                 translated_segments, items, ops, docsAtStart, prev, jobVars>>

\* ------------------------------------------------------------ specification

Step(r) ==
  \/ \E body \in AddBodies : AddStart(r, body)
  \/ \E body \in TranslateBodies : TranslateStart(r, body)
  \/ IndexExists(r)
  \/ IndexCreate(r)
  \/ \E i \in awaiting[r] : Lookup(r, i)
  \/ AddBuild(r)
  \/ BulkWrite(r)
  \/ AddRespond(r)
  \/ \E i \in awaiting[r] : FuzzySearch(r, i)
  \/ \E i \in mtwait[r] : ChatGPT(r, i)
  \/ TranslateRespond(r)
  \/ \E err \in EsErrors : EsFail(r, err)
  \/ ChatGPTFail(r)

\* Requests one at a time: a request is received only after the one before it
\* has been answered.
Next == \E r \in Sequential : Step(r)

Spec == Init /\ [][Next]_vars

\* Requests that overlap: two handlers in flight, their awaits interleaved in
\* any order.  Express runs each handler to its next await, so a step of the
\* model is a step of one request.
RaceAddBodies ==
  { AddBody(en, fr, <<"a",".">>, <<"x",".">>),
    AddBody(en, fr, <<"A",".">>, <<"y",".">>),
    AddBody(en, fr, <<"EMOJI"," ">>, <<"x",".">>) }

RaceTranslateBodies == { TranslateBody(en, fr, <<"a",".">>) }

RaceStep(r) ==
  \/ \E body \in RaceAddBodies : AddStart(r, body)
  \/ \E body \in RaceTranslateBodies : TranslateStart(r, body)
  \/ IndexExists(r)
  \/ IndexCreate(r)
  \/ \E i \in awaiting[r] : Lookup(r, i)
  \/ AddBuild(r)
  \/ BulkWrite(r)
  \/ AddRespond(r)
  \/ \E i \in awaiting[r] : FuzzySearch(r, i)
  \/ \E i \in mtwait[r] : ChatGPT(r, i)
  \/ TranslateRespond(r)
  \/ \E err \in EsErrors : EsFail(r, err)
  \/ ChatGPTFail(r)

NextRace == \E r \in Slots : RaceStep(r)

SpecRace == Init /\ [][NextRace]_vars

\* The normalizers over every short string: requests whose source_text is any
\* text over tag brackets, whitespace, a pictographic character and a letter,
\* and requests whose source_lang is any tag over whitespace, a hyphen and a
\* letter in both cases.  The target language is non-segmenting, so the
\* handler keeps the normalized text whole.
TextAlphabet == {"<", ">", " ", "EMOJI", "a"}

LangAlphabet == {" ", "-", "A", "a"}

Strings(alphabet, n) == UNION {[1..k -> alphabet] : k \in 0..n}

NormalizeBodies ==
  {AddBody(en, korean, text, <<"x",".">>) : text \in Strings(TextAlphabet, MaxLen)}
    \cup {AddBody(tag, korean, <<"a",".">>, <<"x",".">>) :
            tag \in Strings(LangAlphabet, MaxLen)}

\* Each request is the first one the server receives.
NextNormalize ==
  \E r \in Sequential : \E body \in NormalizeBodies : nreq = 0 /\ AddStart(r, body)

SpecNormalize == Init /\ [][NextNormalize]_vars

\* Add-translation requests, one at a time, against an engine whose bulk write
\* may reject single operations.
BulkAddBodies ==
  { AddBody(en, fr, <<"a",".">>, <<"x",".">>),
    AddBody(en, fr, <<"A",".">>, <<"y",".">>),
    AddBody(en, fr, <<"a","."," ","b",".">>, <<"x","."," ","y",".">>) }

BulkErrorsStep(r) ==
  \/ \E body \in BulkAddBodies : AddStart(r, body)
  \/ IndexExists(r)
  \/ IndexCreate(r)
  \/ \E i \in awaiting[r] : Lookup(r, i)
  \/ AddBuild(r)
  \/ BulkWrite(r)
  \/ BulkWriteErrors(r)
  \/ AddRespond(r)
  \/ \E err \in EsErrors : EsFail(r, err)

NextBulkErrors == \E r \in Sequential : BulkErrorsStep(r)

SpecBulkErrors == Init /\ [][NextBulkErrors]_vars

\* Requests of two language pairs that share the target language, and so the
\* collection, with the same source text.
de == <<"d","e">>

PairBodies ==
  { AddBody(en, fr, <<"a",".">>, <<"x",".">>),
    AddBody(de, fr, <<"a",".">>, <<"y",".">>),
    AddBody(de, fr, <<"a",".">>, <<"z",".">>),
    TranslateBody(en, fr, <<"a",".">>),
    TranslateBody(de, fr, <<"a",".">>) }

PairsStep(r) ==
  \/ \E body \in {b \in PairBodies : b.kind = "add"} : AddStart(r, body)
  \/ \E body \in {b \in PairBodies : b.kind = "translate"} : TranslateStart(r, body)
  \/ IndexExists(r)
  \/ IndexCreate(r)
  \/ \E i \in awaiting[r] : Lookup(r, i)
  \/ AddBuild(r)
  \/ BulkWrite(r)
  \/ AddRespond(r)
  \/ \E i \in awaiting[r] : FuzzySearch(r, i)
  \/ \E i \in mtwait[r] : ChatGPT(r, i)
  \/ TranslateRespond(r)
  \/ \E err \in EsErrors : EsFail(r, err)
  \/ ChatGPTFail(r)

NextPairs == \E r \in Sequential : PairsStep(r)

SpecPairs == Init /\ [][NextPairs]_vars

\* Overlapping requests whose calls all return or fail in the end: a call in
\* flight is an await of the handler, and the step that resumes the handler
\* (with the answer or with the error) is taken eventually.
LiveAddBodies ==
  { AddBody(en, fr, <<"a","."," ","b",".">>, <<"x","."," ","y",".">>),
    AddBody(en, fr, <<"EMOJI"," ">>, <<"x",".">>) }

LiveTranslateBodies == { TranslateBody(en, fr, <<"a","."," ","b",".">>) }

\* A call of request r returns or fails.
Returns(r) ==
  \/ IndexExists(r)
  \/ IndexCreate(r)
  \/ \E i \in awaiting[r] : Lookup(r, i)
  \/ AddBuild(r)
  \/ BulkWrite(r)
  \/ AddRespond(r)
  \/ \E i \in awaiting[r] : FuzzySearch(r, i)
  \/ \E i \in mtwait[r] : ChatGPT(r, i)
  \/ TranslateRespond(r)
  \/ \E err \in EsErrors : EsFail(r, err)
  \/ ChatGPTFail(r)

\* The first connection carries the add-translation requests and the second
\* the translate requests.
LiveStep(r) ==
  \/ r = 1 /\ \E body \in LiveAddBodies : AddStart(r, body)
  \/ r = 2 /\ \E body \in LiveTranslateBodies : TranslateStart(r, body)
  \/ Returns(r)

NextLive == \E r \in Slots : LiveStep(r)

SpecLive == Init /\ [][NextLive]_vars /\ \A r \in Slots : WF_vars(Returns(r))

\* ------------------------------------------ spreadsheet ingestion (drive.ts)

\* What the handlers own: every variable but the store and the job's.
handlerVars == <<nreq, pc, req, lang, index_name, source_segments, translated_segments,
                 awaiting, mtwait, hits, completed, bulkBody, items, results, response,
                 ops, docsAtStart, prev>>

\* const target_language = "traditional-chinese".toLowerCase()
target_language == toLowerCase(non_segment_languages[5])

\* The source language that every query and document of the job names.
english == <<"e","n","g","l","i","s","h">>

\* row[k] ?? "": a row of the values answer has no entry for a trailing empty
\* cell.
Cell(row, k) == IF k \in 1..Len(row) THEN row[k] ELSE <<>>

\* segmentMap.set with keys compared in lower case: the collapse of rows that
\* differ in letter case only, which C27 says does not happen.
MapSetIgnoringCase(m, k, v) ==
  IF \E i \in 1..Len(m) : toLowerCase(m[i].key) = toLowerCase(k)
  THEN [i \in 1..Len(m) |->
          IF toLowerCase(m[i].key) = toLowerCase(k) THEN [key |-> m[i].key, value |-> v]
          ELSE m[i]]
  ELSE Append(m, [key |-> k, value |-> v])

\* segmentMap.set(k, v) on a Map held as its entries in insertion order: the
\* value of an existing key is replaced in place, a new key goes last.
MapSet(m, k, v) ==
  IF \E i \in 1..Len(m) : m[i].key = k
  THEN [i \in 1..Len(m) |-> IF m[i].key = k THEN [key |-> k, value |-> v] ELSE m[i]]
  ELSE Append(m, [key |-> k, value |-> v])

\* The segments of one row: none when a cell is empty after normalization,
\* the two texts as they are for a target language that is not segmented.
RowSegments(row) ==
  LET source_text == normalize_text(Cell(row, 1))
      translated_text == normalize_text(Cell(row, 2))
  IN  IF Falsy(source_text) \/ Falsy(translated_text)
      THEN [source_segments |-> <<>>, translated_segments |-> <<>>]
      ELSE IF ~includes(non_segment_languages, target_language)
           THEN split_segments(source_text, translated_text)
           ELSE [source_segments |-> <<source_text>>,
                 translated_segments |-> <<translated_text>>]

\* for (let j = 0; j < source_segments.length; j++) segmentMap.set(...)
RECURSIVE SetSegments(_, _, _, _)
SetSegments(m, source_segs, translated_segs, j) ==
  IF j > Len(source_segs) THEN m
  ELSE SetSegments(MapSet(m, source_segs[j], At(translated_segs, j)),
                   source_segs, translated_segs, j + 1)

\* for (let i = 1; i < rows.length; i++): rows[0], the header, is not read.
\* i counts from 1 here, so the loop starts at 2.
RECURSIVE BuildSegmentMap(_, _, _)
BuildSegmentMap(rows, i, m) ==
  IF i > Len(rows) THEN m
  ELSE LET seg == RowSegments(rows[i])
       IN  BuildSegmentMap(rows, i + 1,
                           SetSegments(m, seg.source_segments, seg.translated_segments, 1))

Log(file, line) == Append(console, [file |-> file, line |-> line])

Call(file, op, body) == Append(calls, [file |-> file, op |-> op, body |-> body])

\* The loop moves to the next file, or has no file left.
AfterFile ==
  IF job.file < Len(files)
  THEN [NoJob EXCEPT !.pc = "file", !.file = job.file + 1]
  ELSE [NoJob EXCEPT !.pc = "end", !.file = job.file]

\* drive.files.list answers with the spreadsheets of the folder.
JobStart(folder) ==
  /\ job.pc = "idle"
  /\ files' = folder
  /\ IF folder = <<>>
     THEN /\ job' = [job EXCEPT !.pc = "end"]
          /\ console' = Log(0, "No spreadsheet files found.")
     ELSE /\ job' = [job EXCEPT !.pc = "file", !.file = 1]
          /\ console' = Log(0, "Total Files")
  /\ UNCHANGED <<indices, docs, calls, handlerVars>>

\* drive.files.list fails: the outer catch, and the job is over.
JobListFail ==
  /\ job.pc = "idle"
  /\ job' = [job EXCEPT !.pc = "end"]
  /\ console' = Log(0, "The API returned an error:")
  /\ UNCHANGED <<indices, docs, files, calls, handlerVars>>

\* The head of the loop body: a file without an id is passed over, for any
\* other the first sheet is asked for.
JobFile ==
  /\ job.pc = "file"
  /\ IF Falsy(files[job.file].id)
     THEN /\ job' = AfterFile
          /\ console' = Log(job.file, "No file id.")
          /\ UNCHANGED calls
     ELSE /\ job' = [job EXCEPT !.pc = "meta"]
          /\ calls' = Call(job.file, "spreadsheets.get", <<>>)
          /\ UNCHANGED console
  /\ UNCHANGED <<indices, docs, files, handlerVars>>

\* sheets.spreadsheets.get answers.
JobSheetsGet ==
  /\ job.pc = "meta"
  /\ IF Falsy(files[job.file].sheetName)
     THEN /\ job' = AfterFile
          /\ console' = Log(job.file, "Could not determine the first sheet's name.")
          /\ UNCHANGED calls
     ELSE /\ job' = [job EXCEPT !.pc = "values"]
          /\ calls' = Call(job.file, "spreadsheets.values.get", <<>>)
          /\ UNCHANGED console
  /\ UNCHANGED <<indices, docs, files, handlerVars>>

\* sheets.spreadsheets.values.get answers; ensure_translations_index asks
\* whether the index exists.
JobValuesGet ==
  /\ job.pc = "values"
  /\ job' = [job EXCEPT !.pc = "exists", !.rows = files[job.file].values]
  /\ console' = Log(job.file, "First sheet name, Total rows")
  /\ calls' = Call(job.file, "indices.exists", <<>>)
  /\ UNCHANGED <<indices, docs, files, handlerVars>>

\* ensure_translations_index has returned: the rows are collected in
\* segmentMap, and one msearch asks for all of its keys, if it has any.
JobPrepare ==
  LET segmentMap == BuildSegmentMap(job.rows, 2, <<>>)
  IN  IF segmentMap # <<>>
      THEN /\ job' = [job EXCEPT !.pc = "msearch", !.segmentMap = segmentMap]
           /\ calls' = Call(job.file, "msearch", <<>>)
           /\ UNCHANGED console
      ELSE /\ job' = AfterFile
           /\ console' = Log(job.file, "No valid rows to insert/update.")
           /\ UNCHANGED calls

\* An ensure_translations_index that does not look at the answer of
\* indices.exists and always creates: the creation that C26 rules out.
JobIndexExistsIgnored ==
  /\ job.pc = "exists"
  /\ job' = [job EXCEPT !.pc = "create"]
  /\ calls' = Call(job.file, "indices.create", <<>>)
  /\ UNCHANGED console
  /\ UNCHANGED <<indices, docs, files, handlerVars>>

\* es_client.indices.exists answers.
JobIndexExists ==
  /\ job.pc = "exists"
  /\ IF IndexName(target_language) \in indices
     THEN JobPrepare
     ELSE /\ job' = [job EXCEPT !.pc = "create"]
          /\ calls' = Call(job.file, "indices.create", <<>>)
          /\ UNCHANGED console
  /\ UNCHANGED <<indices, docs, files, handlerVars>>

\* es_client.indices.create answers: the index is created, or the engine
\* refuses because it exists by now, which the catch of the file logs.
JobIndexCreate ==
  /\ job.pc = "create"
  /\ IF IndexName(target_language) \in indices
     THEN /\ job' = AfterFile
          /\ console' = Log(job.file, "Failed to read spreadsheet or insert:")
          /\ UNCHANGED <<indices, calls>>
     ELSE /\ indices' = indices \cup {IndexName(target_language)}
          /\ JobPrepare
  /\ UNCHANGED <<docs, files, handlerVars>>

\* es_client.msearch answers, one response per key in order: hits.hits[0] of
\* the three term filters, or nothing (no match, or a response that carries
\* an error).  The bulk body gets one operation per entry of segmentMap.
JobMsearch ==
  /\ job.pc = "msearch"
  /\ LET n == Len(job.segmentMap)
         index == IndexName(target_language)
     IN  \E ids \in [1..n -> 0..Len(docs)] :
           /\ \A i \in 1..n :
                ids[i] \in {Null} \cup ExactMatches(docs, index, english, target_language,
                                                   toLowerCase(job.segmentMap[i].key))
           /\ LET existingHits == [i \in 1..n |->
                                     HitOf(docs, ids[i], job.segmentMap[i].key)]
                  body == [i \in 1..n |->
                             BulkOp(index, english, target_language,
                                    job.segmentMap[i].key, job.segmentMap[i].value,
                                    existingHits[i])]
              IN  /\ job' = [job EXCEPT !.pc = "bulk", !.existingHits = existingHits,
                                        !.bulkBody = body]
                  /\ calls' = Call(job.file, "bulk", body)
  /\ UNCHANGED <<indices, docs, files, console, handlerVars>>

\* es_client.bulk answers without errors.
JobBulk ==
  /\ job.pc = "bulk"
  /\ docs' = ApplyBulk(job.bulkBody, docs, <<>>).docs
  /\ console' = Log(job.file, "Bulk upserted segments into TM.")
  /\ job' = AfterFile
  /\ UNCHANGED <<indices, files, calls, handlerVars>>

\* es_client.bulk answers with bulkResponse.errors set: some operations were
\* rejected, the others applied.
JobBulkErrors ==
  /\ job.pc = "bulk"
  /\ \E failed \in (SUBSET (1..Len(job.bulkBody))) \ {{}} :
       docs' = ApplyBulkFailing(job.bulkBody, docs, <<>>, failed, 1).docs
  /\ console' = Log(job.file, "Bulk insert/update had errors")
  /\ job' = AfterFile
  /\ UNCHANGED <<indices, files, calls, handlerVars>>

\* A failure that ends the whole job instead of the file: the propagation
\* that C28 rules out.
JobFailAborting ==
  /\ job.pc \in {"meta", "values", "exists", "create", "msearch", "bulk"}
  /\ console' = Log(job.file, "Failed to read spreadsheet or insert:")
  /\ job' = [NoJob EXCEPT !.pc = "end", !.file = job.file]
  /\ UNCHANGED <<indices, docs, files, calls, handlerVars>>

\* The call the job is waiting for fails: the catch of the file logs the
\* error and the loop goes on with the next file.
JobFail ==
  /\ job.pc \in {"meta", "values", "exists", "create", "msearch", "bulk"}
  /\ console' = Log(job.file, "Failed to read spreadsheet or insert:")
  /\ job' = AfterFile
  /\ UNCHANGED <<indices, docs, files, calls, handlerVars>>

\* The folders the job is run on: up to MaxFiles spreadsheets, each of one of
\* these shapes.  The first row of a sheet is its header.
Header == << <<"h",".">>, <<"k",".">> >>

Spreadsheet(id, sheetName, values) == [id |-> id, sheetName |-> sheetName, values |-> values]

Spreadsheets ==
  { \* the same source text in two rows
    Spreadsheet(<<"1">>, <<"S">>, <<Header, << <<"a",".">>, <<"x",".">> >>,
                                            << <<"a",".">>, <<"y",".">> >> >>),
    \* source texts that differ in letter case only
    Spreadsheet(<<"1">>, <<"S">>, <<Header, << <<"a",".">>, <<"x",".">> >>,
                                            << <<"A",".">>, <<"y",".">> >> >>),
    \* rows with a cell that is missing or empty after normalization, then a
    \* row with both
    Spreadsheet(<<"1">>, <<"S">>, <<Header, << <<"<","i",">">>, <<"x",".">> >>,
                                            << <<"b",".">> >>,
                                            << <<"b",".">>, <<" ","z","."," ">> >> >>),
    \* no row with both cells
    Spreadsheet(<<"1">>, <<"S">>, <<Header, << <<" ">>, <<"x",".">> >>, <<>> >>),
    \* no first sheet
    Spreadsheet(<<"1">>, Undefined, <<>>),
    \* no id
    Spreadsheet(Undefined, Undefined, <<>>) }

Folders == UNION { [1..n -> Spreadsheets] : n \in 0..MaxFiles }

JobStep ==
  \/ \E folder \in Folders : JobStart(folder)
  \/ JobListFail
  \/ JobFile
  \/ JobSheetsGet
  \/ JobValuesGet
  \/ JobIndexExists
  \/ JobIndexCreate
  \/ JobMsearch
  \/ JobBulk
  \/ JobBulkErrors
  \/ JobFail

\* The job run once, against a store that nothing else touches.
NextIngest == JobStep

SpecIngest == Init /\ [][NextIngest]_vars

\* The server, one request at a time, and the job run once, against the same
\* store: requests and folders that name the same language pair and texts.
StoreAddBodies == { AddBody(english, target_language, <<"a",".">>, <<"x",".">>) }

StoreTranslateBodies == { TranslateBody(english, target_language, <<"A",".">>) }

StoreFolders == { folder \in Folders : Len(folder) = 1 /\ ~Falsy(folder[1].sheetName) }

StoreStep(r) ==
  \/ \E body \in StoreAddBodies : AddStart(r, body)
  \/ \E body \in StoreTranslateBodies : TranslateStart(r, body)
  \/ IndexExists(r)
  \/ IndexCreate(r)
  \/ \E i \in awaiting[r] : Lookup(r, i)
  \/ AddBuild(r)
  \/ BulkWrite(r)
  \/ AddRespond(r)
  \/ \E i \in awaiting[r] : FuzzySearch(r, i)
  \/ \E i \in mtwait[r] : ChatGPT(r, i)
  \/ TranslateRespond(r)
  \/ \E err \in EsErrors : EsFail(r, err)
  \/ ChatGPTFail(r)

StoreJobStep ==
  \/ \E folder \in StoreFolders : JobStart(folder)
  \/ JobListFail
  \/ JobFile
  \/ JobSheetsGet
  \/ JobValuesGet
  \/ JobIndexExists
  \/ JobIndexCreate
  \/ JobMsearch
  \/ JobBulk
  \/ JobBulkErrors
  \/ JobFail

NextStore ==
  \/ \E r \in Sequential : StoreStep(r)
  \/ StoreJobStep

SpecStore == Init /\ [][NextStore]_vars

\* ------------------------------------------------------------------ claims

\* An add-translation request answered with its segments.
AddOk(r) == pc[r] = "done" /\ req[r].kind = "add" /\ response[r].status = 200

\* A translate request answered with its translation.
TranslateOk(r) == pc[r] = "done" /\ req[r].kind = "translate" /\ response[r].status = 200

\* The stored segments that match text exactly (case-insensitively) in the
\* language pair of request r.
Stored(r, text) ==
  ExactMatches(docs, index_name[r], lang[r].source_lang, lang[r].target_lang, text)

\* C1. Upsert idempotence: an add-translation request executed twice in a row
\* against a store that held no matching segment answers 'inserted' for every
\* segment the first time and 'updated' the second time, with the same
\* identifier per segment, and leaves exactly one stored segment per source
\* segment.
C1_UpsertIdempotence ==
  \A r \in Slots :
    (AddOk(r) /\ prev[r].req = req[r] /\ prev[r].fresh) =>
      LET first == prev[r].response.segments
          second == response[r].segments
      IN  /\ Len(first) = Len(second)
          /\ \A i \in 1..Len(first) :
               /\ first[i].action = "inserted"
               /\ i <= Len(second) => /\ second[i].action = "updated"
                                      /\ second[i].id = first[i].id
          /\ \A i \in 1..Len(source_segments[r]) :
               Cardinality(Stored(r, source_segments[r][i])) = 1

\* C2. Dedup invariant: with requests executed one at a time, no two stored
\* segments of one language pair have source texts that are equal
\* case-insensitively.
C2_DedupInvariant ==
  (\A r \in Slots : pc[r] \in {"idle", "done"}) =>
    \A a, b \in 1..Len(docs) :
      ( /\ a # b
        /\ docs[a].source_lang = docs[b].source_lang
        /\ docs[a].target_lang = docs[b].target_lang )
      => toLowerCase(docs[a].source_text) # toLowerCase(docs[b].source_text)

\* C3. Identifier resolution: in a successful add-translation response every
\* 'inserted' segment carries the identifier the bulk write gave to the
\* document created for that segment.
C3_IdentifierResolution ==
  \A r \in Slots :
    AddOk(r) =>
      \A i \in 1..Len(response[r].segments) :
        response[r].segments[i].action = "inserted" =>
          /\ response[r].segments[i].id # Null
          /\ items[r][i].op = "index"
          /\ response[r].segments[i].id = items[r][i]._id

\* C4. Update-vs-insert decision: segment i is an update of the hit's document
\* (result 'updated', the hit's identifier) when its exact lookup returned a
\* hit, and an insert of (source_lang, target_lang, source segment i,
\* translated segment i) (result 'inserted') when it returned none; there is
\* one result per source segment.
C4_UpdateVsInsert ==
  \A r \in Slots :
    (req[r].kind = "add" /\ (pc[r] \in {"bulk", "respond"} \/ AddOk(r))) =>
      LET n == Len(source_segments[r]) IN
      /\ Len(bulkBody[r]) = n
      /\ Len(results[r]) = n
      /\ AddOk(r) => Len(response[r].segments) = n
      /\ \A i \in 1..n :
           /\ hits[r][i].settled
           /\ hits[r][i].query = source_segments[r][i]
           /\ IF hits[r][i].found
              THEN /\ bulkBody[r][i].op = "update"
                   /\ bulkBody[r][i]._id = hits[r][i]._id
                   /\ results[r][i].action = "updated"
                   /\ results[r][i].id = hits[r][i]._id
              ELSE /\ bulkBody[r][i].op = "index"
                   /\ bulkBody[r][i].source_lang = lang[r].source_lang
                   /\ bulkBody[r][i].target_lang = lang[r].target_lang
                   /\ bulkBody[r][i].source_text = source_segments[r][i]
                   /\ bulkBody[r][i].translated_text = translated_segments[r][i]
                   /\ results[r][i].action = "inserted"

\* A successful add-translation whose results hold an update and an insert.
C4_Witness ==
  \E r \in Slots :
    /\ AddOk(r)
    /\ \E i, j \in 1..Len(results[r]) :
         /\ hits[r][i].found /\ results[r][i].action = "updated"
         /\ ~hits[r][j].found /\ results[r][j].action = "inserted"

\* C5. Translate non-persistence: while a translate request runs and after it
\* has answered, with success or with an error, the stored segments are what
\* they were when it was received; a segment sent to the fallback translator
\* that had no exact match then has none afterwards.
C5_TranslateReadOnly ==
  \A r \in Slots :
    req[r].kind = "translate" =>
      /\ docs = docsAtStart[r]
      /\ TranslateOk(r) =>
           \A i \in 1..Len(results[r]) :
             ( /\ results[r][i].source = "ChatGPT"
               /\ ExactMatches(docsAtStart[r], index_name[r], lang[r].source_lang,
                               lang[r].target_lang, source_segments[r][i]) = {} )
             => Stored(r, source_segments[r][i]) = {}

\* A translate answered over a non-empty store with a segment that went to the
\* fallback translator and has no exact match.
C5_Witness ==
  \E r \in Slots :
    /\ TranslateOk(r)
    /\ docs # <<>>
    /\ \E i \in 1..Len(results[r]) :
         /\ results[r][i].source = "ChatGPT"
         /\ Stored(r, source_segments[r][i]) = {}

\* The score of segment i of request r against the top hit of its fuzzy query,
\* in hundredths of a percent.
Score(r, i) ==
  Percentage(compareTwoStrings(source_segments[r][i], hits[r][i].source_text))

RECURSIVE JoinTexts(_)
JoinTexts(texts) ==
  IF texts = <<>> THEN <<>>
  ELSE IF Len(texts) = 1 THEN texts[1]
  ELSE texts[1] \o <<" ">> \o JoinTexts(Tail(texts))

\* The translation of segment i of translate request r: the stored one of its
\* hit when the result is reused, the fallback translator's otherwise.
TranslationOf(r, i) ==
  IF hits[r][i].found /\ Score(r, i) >= 5000
  THEN hits[r][i].translated_text
  ELSE chatgpt(lang[r].source_lang, lang[r].target_lang, source_segments[r][i])

\* C7. Order preservation: whatever the order in which the per-segment tasks
\* of a request complete, the lookup answer used for segment i is the answer
\* to the lookup of segment i, result i of the response describes input
\* segment i, and the joined translated_text of a translate response is the
\* per-segment translations in input order.
C7_OrderPreserved ==
  \A r \in Slots :
    LET n == Len(source_segments[r]) IN
    /\ (req[r].kind = "add" /\ pc[r] \in {"lookup", "bulk", "respond"}) =>
         \A i \in 1..n : hits[r][i].settled <=> i \notin awaiting[r]
    /\ (req[r].kind = "add" /\ (pc[r] \in {"lookup", "bulk", "respond"} \/ AddOk(r))) =>
         \A i \in 1..n :
           hits[r][i].settled => hits[r][i].query = source_segments[r][i]
    /\ AddOk(r) =>
         /\ Len(response[r].segments) = n
         /\ \A i \in 1..n :
              /\ response[r].segments[i].segment = source_segments[r][i]
              /\ response[r].segments[i].action = "updated" <=> hits[r][i].found
    /\ TranslateOk(r) =>
         /\ Len(response[r].segments) = n
         /\ \A i \in 1..n :
              /\ response[r].segments[i].settled
              /\ response[r].segments[i].segment = source_segments[r][i]
              /\ response[r].segments[i].translated_text = TranslationOf(r, i)
         /\ response[r].translated_text =
              JoinTexts([i \in 1..n |-> TranslationOf(r, i)])

\* A translate answered after the task of a later segment completed before
\* the task of an earlier one.
C7_Witness ==
  \E r \in Slots :
    /\ TranslateOk(r)
    /\ Len(completed[r]) >= 2
    /\ completed[r][1] > completed[r][2]
    /\ response[r].segments[1].translated_text # response[r].segments[2].translated_text

\* What one bulk operation writes is the pair (s, t): an insert of source text
\* s with translation t, or an update to translation t of a stored segment
\* whose source text is s up to letter case.
WritesPair(o, s, t) ==
  /\ o.translated_text = t
  /\ IF o.op = "index" THEN o.source_text = s
     ELSE /\ o._id \in 1..Len(docs)
          /\ toLowerCase(docs[o._id].source_text) = toLowerCase(s)

\* C8. Alignment rule: for a segmenting target language, when source and
\* translation split into different numbers of sentences exactly one pair is
\* written, the whole normalized source with the whole normalized translation;
\* when the numbers are equal, source sentence i is written with translated
\* sentence i, for every i.
C8_AlignmentRule ==
  \A r \in Slots :
    ( /\ req[r].kind = "add"
      /\ pc[r] \in {"bulk", "respond"} \/ AddOk(r)
      /\ ~includes(non_segment_languages, lang[r].target_lang) ) =>
      LET source_text == normalize_text(req[r].source_text)
          translated_text == normalize_text(req[r].translated_text)
          s == TrimmedSentences(source_text)
          t == TrimmedSentences(translated_text)
      IN  IF Len(s) # Len(t)
          THEN /\ Len(bulkBody[r]) = 1
               /\ WritesPair(bulkBody[r][1], source_text, translated_text)
          ELSE /\ Len(bulkBody[r]) = Len(s)
               /\ \A i \in 1..Len(s) : WritesPair(bulkBody[r][i], s[i], t[i])

\* A successful add-translation whose two-sentence source came with a
\* one-sentence translation.
C8_Witness ==
  \E r \in Slots :
    /\ AddOk(r)
    /\ ~includes(non_segment_languages, lang[r].target_lang)
    /\ Len(TrimmedSentences(normalize_text(req[r].source_text))) = 2
    /\ Len(TrimmedSentences(normalize_text(req[r].translated_text))) = 1
    /\ Len(bulkBody[r]) = 1

\* C9. Non-segmenting bypass: a request, add-translation or translate, whose
\* target language is one of non_segment_languages processes exactly one
\* segment, the whole normalized text.
C9_NonSegmentingBypass ==
  \A r \in Slots :
    ( /\ req[r].kind \in {"add", "translate"}
      /\ ops[r].exists > 0
      /\ includes(non_segment_languages, lang[r].target_lang) ) =>
      source_segments[r] = <<normalize_text(req[r].source_text)>>

\* A field that is missing (undefined) or empty after normalization.
EmptyLang(x) == x = Undefined \/ normalize_lang(x) = <<>>

EmptyText(x) == x = Undefined \/ normalize_text(x) = <<>>

\* C10. Validation: a request with a required field missing or empty after
\* normalization is answered 400 "All fields are required", and no call to
\* the search engine or to the fallback translator is issued for it.
C10_Validation ==
  \A r \in Slots :
    ( /\ req[r].kind \in {"add", "translate"}
      /\ \/ EmptyLang(req[r].source_lang)
         \/ EmptyLang(req[r].target_lang)
         \/ EmptyText(req[r].source_text)
         \/ req[r].kind = "add" /\ EmptyText(req[r].translated_text) ) =>
      /\ pc[r] = "done"
      /\ response[r].status = 400
      /\ response[r].error = "All fields are required"
      /\ ops[r] = NoOps

\* Requests r1 and r2 are add-translations of one language pair whose segments
\* i and j are the same source text, and both exact lookups returned no hit.
BothMissed(r1, i, r2, j) ==
  /\ r1 # r2
  /\ req[r1].kind = "add" /\ req[r2].kind = "add"
  /\ lang[r1] = lang[r2]
  /\ i \in 1..Len(hits[r1]) /\ j \in 1..Len(hits[r2])
  /\ toLowerCase(source_segments[r1][i]) = toLowerCase(source_segments[r2][j])
  /\ hits[r1][i].settled /\ ~hits[r1][i].found
  /\ hits[r2][j].settled /\ ~hits[r2][j].found

\* C11. Duplicate-insert race: when two overlapping add-translation requests
\* of one language pair both look the same source text up before either
\* writes, both lookups miss, both requests answer 'inserted', and the store
\* ends with two segments for that source text under different identifiers.
C11_DuplicateInsertRace ==
  \A r1, r2 \in Slots :
    \A i \in 1..Len(hits[r1]) : \A j \in 1..Len(hits[r2]) :
      (BothMissed(r1, i, r2, j) /\ AddOk(r1) /\ AddOk(r2)) =>
        /\ response[r1].segments[i].action = "inserted"
        /\ response[r2].segments[j].action = "inserted"
        /\ items[r1][i].op = "index" /\ items[r2][j].op = "index"
        /\ items[r1][i]._id # items[r2][j]._id
        /\ {items[r1][i]._id, items[r2][j]._id} \subseteq Stored(r1, source_segments[r1][i])

\* Two add-translations of the same new source text have both answered
\* 'inserted' and two segments are stored for it.
C11_Witness ==
  \E r1, r2 \in Slots :
    /\ AddOk(r1) /\ AddOk(r2)
    /\ BothMissed(r1, 1, r2, 1)
    /\ response[r1].segments[1].action = "inserted"
    /\ response[r2].segments[1].action = "inserted"
    /\ Cardinality(Stored(r1, source_segments[r1][1])) = 2

\* C12. Collection creation under races: a request whose creation of the
\* collection is answered 'already exists', because another request created it
\* after both had checked, goes on and completes normally; it does not end
\* with the engine's error.
C12_CreateRaceTolerated ==
  \A r \in Slots :
    ( /\ pc[r] = "done"
      /\ ops[r].create > 0
      /\ ops[r].search = 0
      /\ index_name[r] \in indices )
    => ~(response[r].status = 400 /\ response[r].error = "ResponseError")

\* The exchange before the current one of slot r was a successful
\* add-translation in the language pair of the current request, and text was
\* one of its source segments.
AddedBefore(r, text) ==
  /\ prev[r].req.kind = "add"
  /\ prev[r].response.status = 200
  /\ normalize_lang(prev[r].req.source_lang) = lang[r].source_lang
  /\ normalize_lang(prev[r].req.target_lang) = lang[r].target_lang
  /\ \E k \in 1..Len(prev[r].response.segments) :
       prev[r].response.segments[k].segment = text

\* C13. Read-your-writes: once an add-translation has answered with success,
\* an exact lookup of each of its source segments finds a stored segment, and
\* a translate request for one of those source segments in the same language
\* pair, to whose fuzzy query the engine answers with the segment stored for
\* it, returns one result taken from the store, with similarity 100 and the
\* stored translation, and calls the fallback translator zero times.
C13_ReadYourWrites ==
  \A r \in Slots :
    /\ AddOk(r) =>
         \A i \in 1..Len(source_segments[r]) : Stored(r, source_segments[r][i]) # {}
    /\ ( /\ TranslateOk(r)
         /\ Len(source_segments[r]) = 1
         /\ AddedBefore(r, source_segments[r][1])
         /\ hits[r][1].found
         /\ hits[r][1]._id \in Stored(r, source_segments[r][1]) ) =>
         /\ Len(response[r].segments) = 1
         /\ response[r].segments[1].source = "CAT Tool"
         /\ response[r].segments[1].similarity = 10000
         /\ response[r].segments[1].translated_text = docs[hits[r][1]._id].translated_text
         /\ ops[r].chatgpt = 0

\* C14. Only add-translation mutates storage: a translate request issues no
\* index creation and no bulk write, and the stored segments are what they
\* were when it was received.
C14_OnlyAddMutates ==
  \A r \in Slots :
    req[r].kind = "translate" =>
      /\ ops[r].create = 0
      /\ ops[r].bulk = 0
      /\ docs = docsAtStart[r]

\* C15. Fallback failure propagates: in a translate request, a call to the
\* fallback translator ends either with the translator's text as the result
\* of its segment, or with the whole request answered by an error that
\* carries no segment results and no translated text.
C15_FallbackFailurePropagates ==
  [][ \A r \in Slots :
        ( /\ req[r].kind = "translate"
          /\ pc[r] = "fuzzy"
          /\ mtwait[r] \ mtwait'[r] # {} ) =>
          \/ \E i \in mtwait[r] :
               /\ mtwait'[r] = mtwait[r] \ {i}
               /\ pc'[r] = "fuzzy"
               /\ results'[r][i].settled
               /\ results'[r][i].source = "ChatGPT"
               /\ results'[r][i].translated_text =
                    chatgpt(lang[r].source_lang, lang[r].target_lang,
                            source_segments[r][i])
          \/ /\ pc'[r] = "done"
             /\ response'[r].status \notin {0, 200}
             /\ response'[r].error # ""
             /\ response'[r].segments = <<>>
             /\ response'[r].translated_text = <<>> ]_vars

\* A translate request of two segments answered with the error of the
\* fallback translator.
C15_Witness ==
  \E r \in Slots :
    /\ pc[r] = "done"
    /\ req[r].kind = "translate"
    /\ Len(source_segments[r]) = 2
    /\ ops[r].chatgpt >= 1
    /\ response[r].status = 500
    /\ response[r].error = "OpenAIError"
    /\ response[r].segments = <<>>

\* A request answered with an error.
Failed(r) == pc[r] = "done" /\ response[r].status \notin {0, 200}

\* The class of the error a failed request was answered with.
ErrorClass(r) ==
  CASE response[r].error = "All fields are required" -> "ValidationError"
    [] response[r].error = "Elasticsearch connection error" -> "StorageUnavailable"
    [] response[r].error = "Elasticsearch timeout" -> "StorageTimeout"
    [] response[r].error = "ResponseError" -> "StorageProtocolError"
    [] response[r].error = "OpenAIError" -> "FallbackOracleError"
    [] OTHER -> "Unclassified"

\* C16. Typed errors: every failed request carries a status and an error, and
\* two failed requests whose errors are of different classes carry different
\* statuses.
C16_TypedErrors ==
  /\ \A r \in Slots : Failed(r) => response[r].error # ""
  /\ \A r1, r2 \in Slots :
       (Failed(r1) /\ Failed(r2) /\ ErrorClass(r1) # ErrorClass(r2)) =>
         response[r1].status # response[r2].status

\* The segments of request r whose bulk operation is an update of document id.
UpdatesOf(r, id) ==
  {i \in 1..Len(bulkBody[r]) : bulkBody[r][i].op = "update" /\ bulkBody[r][i]._id = id}

\* C17. Update frame: the bulk write of an add-translation leaves the
\* identifier, collection, source_text (in its stored letter case),
\* source_lang and target_lang of every stored segment as they were; a
\* segment that no update of the request names is unchanged, a segment that
\* one names gets the translated segment of such an update, and the number of
\* stored segments grows by the number of inserts only.
C17_UpdateFrame ==
  [][ \A r \in Slots :
        (req[r].kind = "add" /\ pc[r] = "bulk" /\ pc'[r] = "respond") =>
          /\ Len(docs') = Len(docs) + Cardinality({i \in 1..Len(bulkBody[r]) :
                                                     bulkBody[r][i].op = "index"})
          /\ \A id \in 1..Len(docs) :
               /\ docs'[id]._index = docs[id]._index
               /\ docs'[id].source_text = docs[id].source_text
               /\ docs'[id].source_lang = docs[id].source_lang
               /\ docs'[id].target_lang = docs[id].target_lang
               /\ IF UpdatesOf(r, id) = {}
                  THEN docs'[id] = docs[id]
                  ELSE \E i \in UpdatesOf(r, id) :
                         docs'[id].translated_text = translated_segments[r][i] ]_vars

\* A successful add-translation has updated a stored segment whose source text
\* differs from the request's in letter case: the translation is the new one,
\* the stored source text is still its own.
C17_Witness ==
  \E r \in Slots :
    /\ AddOk(r)
    /\ Len(docs) = Len(docsAtStart[r])
    /\ \E i \in 1..Len(results[r]) :
         /\ results[r][i].action = "updated"
         /\ docs[results[r][i].id].source_text # source_segments[r][i]
         /\ docs[results[r][i].id].source_text = docsAtStart[r][results[r][i].id].source_text
         /\ docs[results[r][i].id].translated_text = translated_segments[r][i]
         /\ docsAtStart[r][results[r][i].id].translated_text # translated_segments[r][i]

\* The source segments of request r are pairwise different, up to letter case.
DistinctSegments(r) ==
  \A i, j \in 1..Len(source_segments[r]) :
    i # j => toLowerCase(source_segments[r][i]) # toLowerCase(source_segments[r][j])

\* C18. Last write wins: with requests executed one at a time, after a
\* successful add-translation (of pairwise different source segments) every
\* stored segment of its language pair that matches one of its source segments
\* holds the translated segment the request gave for it; no earlier
\* translation of that source text is left.
C18_LastWriteWins ==
  \A r \in Slots :
    (AddOk(r) /\ DistinctSegments(r)) =>
      \A i \in 1..Len(source_segments[r]) :
        \A id \in Stored(r, source_segments[r][i]) :
          docs[id].translated_text = translated_segments[r][i]

\* text holds a '<...>' tag: a "<" with a ">" somewhere after it.
HasTag(text) == \E i, j \in 1..Len(text) : i < j /\ text[i] = "<" /\ text[j] = ">"

HasPictographic(text) == \E i \in 1..Len(text) : text[i] \in Pictographic

\* text starts or ends with whitespace.
Untrimmed(text) ==
  text # <<>> /\ (text[1] \in Whitespace \/ text[Len(text)] \in Whitespace)

\* C19. Normalizer idempotence: for the source_text x and the source_lang l of
\* any request, normalize_text(normalize_text(x)) = normalize_text(x), the
\* normalized text holds no tag and no pictographic character and neither
\* starts nor ends with whitespace, and normalizing the normalized language
\* tag again returns it unchanged; these are the values the handler goes on
\* with.
C19_NormalizerIdempotence ==
  \A r \in Slots :
    (req[r].kind = "add" /\ req[r].source_text # Undefined) =>
      LET text == normalize_text(req[r].source_text)
          tag == normalize_lang(req[r].source_lang)
      IN  /\ normalize_text(text) = text
          /\ ~HasTag(text)
          /\ ~HasPictographic(text)
          /\ ~Untrimmed(text)
          /\ normalize_lang(tag) = tag
          /\ \A i \in 1..Len(tag) : tag[i] \notin Whitespace \cup DOMAIN Upper2Lower
          /\ lang[r].source_lang = tag
          /\ pc[r] = "exists" => source_segments[r] = <<text>>

\* A request whose source_text held a tag, a pictographic character and
\* whitespace at an edge has been normalized to a non-empty text.
C19_Witness ==
  \E r \in Slots :
    /\ req[r].kind = "add"
    /\ pc[r] = "exists"
    /\ HasTag(req[r].source_text)
    /\ HasPictographic(req[r].source_text)
    /\ Untrimmed(StripPictographic(StripTags(req[r].source_text)))
    /\ source_segments[r] = <<normalize_text(req[r].source_text)>>

\* The statuses handle_elastic_error gives to the errors of the search engine.
StorageStatuses == {400, 500, 502, 503, 504}

\* C20. Lookup failure aborts the add: when the collection check, the
\* collection creation or one of the exact lookups of an add-translation
\* fails, the request ends there with a storage error that lists no segment;
\* it has submitted no bulk write and the stored segments are unchanged.
C20_LookupFailureAborts ==
  [][ \A r \in Slots :
        ( /\ req[r].kind = "add"
          /\ \/ pc[r] \in {"exists", "create"}
             \/ pc[r] = "lookup" /\ awaiting[r] # {}
          /\ pc'[r] = "done" ) =>
          /\ response'[r].status \in StorageStatuses
          /\ response'[r].error # ""
          /\ response'[r].segments = <<>>
          /\ ops'[r].bulk = 0
          /\ bulkBody'[r] = <<>>
          /\ docs' = docs ]_vars

\* An add-translation of several segments, over a store that holds segments,
\* has ended with the engine's timeout after its lookups were issued and
\* without a bulk write.
C20_Witness ==
  \E r \in Slots :
    /\ pc[r] = "done"
    /\ req[r].kind = "add"
    /\ response[r].status = 504
    /\ ops[r].search >= 2
    /\ ops[r].bulk = 0
    /\ docs # <<>>
    /\ docs = docsAtStart[r]

\* C21. Per-document batch failures are reported: when the bulk write returned
\* normally with an error in the item of some operation, the add-translation
\* does not answer with a success that lists the segment of that operation as
\* 'inserted' or 'updated'.
C21_BatchFailuresReported ==
  \A r \in Slots :
    (pc[r] = "done" /\ req[r].kind = "add") =>
      \A i \in 1..Len(items[r]) :
        items[r][i].error =>
          ~ ( /\ response[r].status = 200
              /\ i \in 1..Len(response[r].segments)
              /\ response[r].segments[i].action \in {"inserted", "updated"} )

\* C22. Single batch write after all lookups: an add-translation submits at
\* most one bulk write; when it is submitted every exact lookup of the request
\* has answered, and it holds one operation per source segment, operation i
\* for segment i; no response is sent while lookups or the bulk write are
\* outstanding, and a successful request with at least one segment has
\* submitted exactly one bulk write and received its items.
C22_SingleBatchWrite ==
  \A r \in Slots :
    req[r].kind = "add" =>
      LET n == Len(source_segments[r]) IN
      /\ ops[r].bulk <= 1
      /\ pc[r] \in {"exists", "create", "lookup"} => ops[r].bulk = 0
      /\ pc[r] \in {"exists", "create", "lookup", "bulk", "respond"} =>
           response[r] = NoResponse
      /\ (pc[r] \in {"bulk", "respond"} \/ AddOk(r)) =>
           /\ awaiting[r] = {}
           /\ Len(completed[r]) = n
           /\ Len(bulkBody[r]) = n
           /\ \A i \in 1..n :
                /\ hits[r][i].settled
                /\ bulkBody[r][i].translated_text = translated_segments[r][i]
                /\ IF bulkBody[r][i].op = "update"
                   THEN hits[r][i].found /\ bulkBody[r][i]._id = hits[r][i]._id
                   ELSE bulkBody[r][i].source_text = source_segments[r][i]
      /\ pc[r] = "bulk" => items[r] = <<>>
      /\ (AddOk(r) /\ n >= 1) => ops[r].bulk = 1 /\ Len(items[r]) = n

\* A successful add-translation of several segments whose later lookup
\* answered before an earlier one, after exactly one bulk write.
C22_Witness ==
  \E r \in Slots :
    /\ AddOk(r)
    /\ Len(source_segments[r]) >= 2
    /\ ops[r].bulk = 1
    /\ Len(completed[r]) >= 2
    /\ completed[r][1] > completed[r][2]
    /\ Len(items[r]) = Len(source_segments[r])

\* The segments of translate request r that have gone to the fallback
\* translator: the call is in flight, or the result is labelled 'ChatGPT'.
FellBack(r) ==
  mtwait[r] \cup {i \in 1..Len(results[r]) :
                    results[r][i].settled /\ results[r][i].source = "ChatGPT"}

SamePair(d, r) ==
  d.source_lang = lang[r].source_lang /\ d.target_lang = lang[r].target_lang

\* C24. Language-pair isolation: with requests executed one at a time, every
\* update of an add-translation names a segment of the request's own language
\* pair, and the segments stored under another pair are what they were when
\* the request was received; a translate result taken from the store comes
\* from a segment of the request's own language pair.
C24_PairIsolation ==
  \A r \in Slots :
    /\ (req[r].kind = "add" /\ (pc[r] \in {"bulk", "respond"} \/ AddOk(r))) =>
         \A i \in 1..Len(bulkBody[r]) :
           bulkBody[r][i].op = "update" => SamePair(docs[bulkBody[r][i]._id], r)
    /\ req[r].kind = "add" =>
         \A id \in 1..Len(docsAtStart[r]) :
           ~SamePair(docsAtStart[r][id], r) => docs[id] = docsAtStart[r][id]
    /\ req[r].kind = "translate" =>
         \A i \in 1..Len(results[r]) :
           (results[r][i].settled /\ results[r][i].source = "CAT Tool") =>
             /\ SamePair(docs[hits[r][i]._id], r)
             /\ results[r][i].translated_text = docs[hits[r][i]._id].translated_text

\* A successful add-translation has overwritten the translation of its own
\* pair's segment while a segment with the same source text, stored in the
\* same collection under another source language, kept its own.
C24_Witness ==
  \E r \in Slots :
    /\ AddOk(r)
    /\ \E i \in 1..Len(results[r]) :
         /\ results[r][i].action = "updated"
         /\ docs[results[r][i].id].translated_text
              # docsAtStart[r][results[r][i].id].translated_text
         /\ \E id \in 1..Len(docs) :
              /\ ~SamePair(docs[id], r)
              /\ docs[id]._index = index_name[r]
              /\ docs[id].source_text = source_segments[r][i]
              /\ docs[id].translated_text # translated_segments[r][i]

\* Request r is being handled: received and not answered yet.
InFlight(r) == pc[r] \notin {"idle", "done"}

\* C25. Every request responds exactly once: provided every call returns or
\* fails, a request that is being handled is answered eventually; and a
\* response is sent only by a handler that has sent none, in the step that
\* ends it.
C25_RespondsExactlyOnce ==
  /\ \A r \in Slots : InFlight(r) ~> (pc[r] = "done" /\ response[r] # NoResponse)
  /\ [][ \A r \in Slots :
           /\ response'[r] # response[r] =>
                \/ ~InFlight(r)
                \/ response[r] = NoResponse /\ pc'[r] = "done"
           /\ (InFlight(r) /\ pc'[r] = "done") => response'[r] # NoResponse ]_vars

\* Two overlapping requests have both been answered, an add-translation with
\* its segments and a translate with the error of the fallback translator.
C25_Witness ==
  \E r1, r2 \in Slots :
    /\ AddOk(r1)
    /\ Len(response[r1].segments) = 2
    /\ Failed(r2)
    /\ req[r2].kind = "translate"
    /\ response[r2].error = "OpenAIError"

\* C26. Storage only grows: over any step of a request or of the ingestion
\* job, an index that exists still exists, the number of stored segments does
\* not decrease, a stored segment keeps its identifier, its index, its
\* language pair and its source text, and no creation is issued when the
\* existence check has answered true.
C26_StorageOnlyGrows ==
  [][ /\ indices \subseteq indices'
      /\ Len(docs') >= Len(docs)
      /\ \A id \in 1..Len(docs) :
           /\ docs'[id]._index = docs[id]._index
           /\ docs'[id].source_lang = docs[id].source_lang
           /\ docs'[id].target_lang = docs[id].target_lang
           /\ docs'[id].source_text = docs[id].source_text
      /\ \A r \in Slots :
           (pc[r] = "exists" /\ index_name[r] \in indices) =>
             (pc'[r] # "create" /\ ops'[r].create = ops[r].create)
      /\ (job.pc = "exists" /\ IndexName(target_language) \in indices) =>
           (job'.pc # "create" /\
            \A c \in (Len(calls) + 1)..Len(calls') : calls'[c].op # "indices.create") ]_vars

\* The job has written its file and the server has answered an
\* add-translation, into the one index, which holds at least two segments.
C26_Witness ==
  /\ job.pc = "end"
  /\ \E k \in 1..Len(console) : console[k].line = "Bulk upserted segments into TM."
  /\ \E r \in Slots : AddOk(r)
  /\ indices = {IndexName(target_language)}
  /\ Len(docs) >= 2

\* The rows of spreadsheet f below the header.
DataRows(f) == 2..Len(files[f].values)

\* Row i of spreadsheet f has an empty source or translated cell after
\* normalization.
EmptyRow(f, i) ==
  \/ normalize_text(Cell(files[f].values[i], 1)) = <<>>
  \/ normalize_text(Cell(files[f].values[i], 2)) = <<>>

\* What the rows of a sheet produce, from row i on, in order: one pair of a
\* source segment and its translated segment per segment of a row.
RECURSIVE Productions(_, _)
Productions(rows, i) ==
  IF i > Len(rows) THEN <<>>
  ELSE LET seg == RowSegments(rows[i])
       IN  [j \in 1..Len(seg.source_segments) |->
              [source |-> seg.source_segments[j],
               translated |-> seg.translated_segments[j]]]
           \o Productions(rows, i + 1)

BulkCalls == { c \in 1..Len(calls) : calls[c].op = "bulk" }

\* C27. Ingestion collapses repeated rows: the bulk request of a spreadsheet
\* has exactly one operation per distinct source segment string, compared
\* letter for letter, in the order in which the rows first produce the
\* strings, each carrying the translated segment of the last row that
\* produced the string; there is at most one bulk request per spreadsheet.
C27_RepeatedRowsCollapse ==
  /\ \A c \in BulkCalls :
       LET body == calls[c].body
           P == Productions(files[calls[c].file].values, 2)
           first == { k \in 1..Len(P) : \A l \in 1..(k - 1) : P[l].source # P[k].source }
           last == { k \in 1..Len(P) : \A l \in (k + 1)..Len(P) : P[l].source # P[k].source }
       IN  /\ Len(body) = Cardinality(first)
           /\ \A k \in first :
                LET o == body[Cardinality({ l \in first : l <= k })]
                IN  /\ \E l \in last :
                         P[l].source = P[k].source /\ o.translated_text = P[l].translated
                    /\ o.op = "index" => o.source_text = P[k].source
                    /\ o.op = "update" =>
                         toLowerCase(docs[o._id].source_text) = toLowerCase(P[k].source)
  /\ \A c, d \in BulkCalls : calls[c].file = calls[d].file => c = d

\* The job has written a spreadsheet whose two rows differ in letter case
\* only, as two inserts, and one whose two rows have the same source text, as
\* one operation with the translation of the second row.
C27_Witness ==
  /\ job.pc = "end"
  /\ \E c \in BulkCalls :
       /\ Len(calls[c].body) = 2
       /\ calls[c].body[1].op = "index" /\ calls[c].body[2].op = "index"
       /\ calls[c].body[1].source_text # calls[c].body[2].source_text
       /\ toLowerCase(calls[c].body[1].source_text) = toLowerCase(calls[c].body[2].source_text)
  /\ \E c \in BulkCalls :
       /\ Len(calls[c].body) = 1
       /\ Len(files[calls[c].file].values) = 3
       /\ ~EmptyRow(calls[c].file, 2) /\ ~EmptyRow(calls[c].file, 3)
       /\ calls[c].body[1].translated_text = <<"y",".">>
  /\ Len(docs) >= 2

\* The spreadsheets for which the catch of the file has logged a failure.
FailedFiles ==
  { console[k].file : k \in { l \in 1..Len(console) :
                                console[l].line = "Failed to read spreadsheet or insert:" } }

\* C28. Ingestion isolates per-file failures: no call is issued for a
\* spreadsheet once a call for it has failed, calls are issued in the order
\* of the folder, and when the job ends every spreadsheet with an id has been
\* asked for; a row with an empty source or translated cell after
\* normalization contributes to no write, and a spreadsheet with no other
\* row is neither looked up nor written.
C28_FailureIsolation ==
  /\ [][ \A c \in (Len(calls) + 1)..Len(calls') :
           /\ calls'[c].file \notin FailedFiles'
           /\ c > 1 => calls'[c].file >= calls'[c - 1].file ]_vars
  /\ [](job.pc = "end" =>
          \A f \in 1..Len(files) :
            /\ \E k \in 1..Len(console) : console[k].file = f
            /\ files[f].id # Undefined =>
                 \E c \in 1..Len(calls) :
                   calls[c].file = f /\ calls[c].op = "spreadsheets.get")
  /\ [](\A c \in 1..Len(calls) :
          calls[c].op \in {"msearch", "bulk"} =>
            /\ \E i \in DataRows(calls[c].file) : ~EmptyRow(calls[c].file, i)
            /\ \A k \in 1..Len(calls[c].body) :
                 \E i \in DataRows(calls[c].file) :
                   /\ ~EmptyRow(calls[c].file, i)
                   /\ \E j \in 1..Len(RowSegments(files[calls[c].file].values[i]).source_segments) :
                        LET seg == RowSegments(files[calls[c].file].values[i])
                        IN  /\ calls[c].body[k].translated_text = seg.translated_segments[j]
                            /\ calls[c].body[k].op = "index" =>
                                 calls[c].body[k].source_text = seg.source_segments[j])

\* The lookup of the first spreadsheet failed, and the job went on to write
\* the second, whose rows with an empty cell it skipped.
C28_Witness ==
  /\ job.pc = "end"
  /\ Len(files) = 2
  /\ 1 \in FailedFiles
  /\ \E c \in 1..Len(calls) : calls[c].file = 1 /\ calls[c].op = "msearch"
  /\ \E c \in BulkCalls :
       /\ calls[c].file = 2
       /\ \E i \in DataRows(2) : EmptyRow(2, i)
       /\ Len(calls[c].body) = 1
       /\ calls[c].body[1].source_text = <<"b",".">>
       /\ calls[c].body[1].translated_text = <<"z",".">>
  /\ \E k \in 1..Len(console) :
       console[k].file = 2 /\ console[k].line = "Bulk upserted segments into TM."

====
